---- MODULE Spec2Model ----
(***************************************************************************)
(* Model of the synthetic data generator of variable-importance            *)
(* (src/variable_importance_testing/dgp.py, class DataGenerator).          *)
(*                                                                         *)
(* An effect value, a signal, a noise sample and a target are doubles,     *)
(* kept exactly (sign, exponent, mantissa of 53 bits) and added and        *)
(* multiplied as IEEE 754 does, each result rounded to nearest, ties to    *)
(* even, one operation after the other (no fused multiply-add, as in the   *)
(* builds for x86-64); an importance is a fixed-point integer in units of  *)
(* 1/Unit, truncated toward zero.  The doubles in [0, 1] that are only     *)
(* compared with each other (the values of random() and rng.random(), the  *)
(* frequencies, the correlations) are kept as integers in units of 2^-53.  *)
(* The two random streams of the program (the module-level `random`        *)
(* stream and the generator-owned numpy stream self.rng) are               *)
(* deterministic streams: a stream is [seed, pos], pos                     *)
(* counting the outputs taken since seeding.  The module-level stream is   *)
(* CPython's Mersenne Twister and the numpy stream is PCG64 seeded through *)
(* SeedSequence, as np.random.default_rng does: the outputs of both for    *)
(* the seeds and positions the model reaches are tabulated, and random(),  *)
(* getrandbits, randint on the one side, Generator.random, choice and      *)
(* uniform on the other are computed from them as CPython and numpy do;    *)
(* the values of Generator.normal, beta and gamma, which numpy computes    *)
(* with floating-point tables and libm, are tabulated per stream position. *)
(* A dict whose iteration order matters is a sequence of <<key, value>>    *)
(* items in insertion order.                                               *)
(* Python lists indexed by column are functions on 0..n-1; lists that are  *)
(* only iterated are sequences.                                            *)
(*                                                                         *)
(* SpecNew constructs two generators from the same arguments; Spec         *)
(* constructs one generator and calls its methods.  SpecScore              *)
(* calls the functions of the scoring harness                              *)
(* (src/variable_importance/variable_importance_scoring.py).               *)
(***************************************************************************)
EXTENDS Integers, Sequences, FiniteSets, TLC

(***************************************************************************)
(* Bounds of the model.                                                    *)
(***************************************************************************)
MaxCols == 2
MaxRows == 2
MaxSeed == 5
MaxCalls == 2
MaxOtherDraws == 1
\* the scoring harness: number of features scored, number of score names asked
MaxFeatures == 2
MaxNames == 2

(***************************************************************************)
(* Program constants.                                                      *)
(***************************************************************************)
EFFECT_SCALE_RANGE == 5
EFFECT_EXPONENT_RANGE == 5

\* rng_seed=None, and every other omitted optional argument
None == -1

\* fixed-point unit of the real numbers: 1.0 is Unit
Unit == 32 * (EFFECT_SCALE_RANGE ^ EFFECT_EXPONENT_RANGE)

\* correlation_scale=0.9
correlation_scale == 9 * (Unit \div 10)

\* the column label 'target' (a string, distinct from every integer label)
TargetStr == 0 - 2

Min(a, b) == IF a < b THEN a ELSE b
Max(a, b) == IF a > b THEN a ELSE b
Abs(a) == IF a < 0 THEN 0 - a ELSE a

(***************************************************************************)
(* Random streams.                                                         *)
(***************************************************************************)
\* A seed is a nonnegative integer below 2^64, written as its four 16-bit
\* limbs, most significant first: rng_seed=3 is <<0, 0, 0, 3>>.
SeedLimbs(n) == <<0, 0, 0, n>>

\* the module-level stream after random.seed(seed); pos counts the 32-bit
\* outputs taken
Seeded(seed) == [seed |-> seed, pos |-> 0]
Advance(st, k) == [st EXCEPT !.pos = @ + k]

\* The outputs of the two generators are tabulated per seed.  A table is a
\* list of rows, one per seed; a row is a string of decimal numerals of fixed
\* width: the four limbs of the seed, five digits each, and then one entry per
\* stream position.  Numeral reads the numeral of w digits that starts at
\* character `from`; RowSeed reads the seed of a row; Cell reads, in the entry
\* of width `width` at index p (from 1), the field of w digits that starts
\* `offset` characters into the entry; Positions is the number of entries of a
\* row; RowOf is the row of a seed.
Digit(c) ==
  CASE c = "0" -> 0 [] c = "1" -> 1 [] c = "2" -> 2 [] c = "3" -> 3 [] c = "4" -> 4
    [] c = "5" -> 5 [] c = "6" -> 6 [] c = "7" -> 7 [] c = "8" -> 8 [] c = "9" -> 9
RECURSIVE Numeral(_, _, _)
Numeral(s, from, w) ==
  IF w = 0 THEN 0
  ELSE 10 * Numeral(s, from, w - 1) + Digit(SubSeq(s, from + w - 1, from + w - 1))
RowSeed(row) ==
  <<Numeral(row, 1, 5), Numeral(row, 6, 5), Numeral(row, 11, 5), Numeral(row, 16, 5)>>
Cell(row, p, width, offset, w) == Numeral(row, 20 + (p - 1) * width + offset + 1, w)
Positions(row, width) == (Len(row) - 20) \div width
TableSeeds(table) == {RowSeed(table[i]) : i \in DOMAIN table}
RowOf(table, seed) == table[CHOOSE i \in DOMAIN table : RowSeed(table[i]) = seed]

\* The module-level `random` stream is the Mersenne Twister of CPython.
\* PyWordAt(s, p + 1) is output number p after random.seed(s), as its high
\* and low 16 bits.  The seeds tabulated are 0 .. 8, the seeds
\* random.randint(0, sys.maxsize) gives on the streams seeded 6 and 7 (the
\* stream a run starts on is seeded MaxSeed + 1), and the seeds it gives on
\* the streams seeded by those.
PyWordTable ==
  <<"000000000000000000005534001997252472860649673196285834301666275623797302653120841696824122632724633033506589783184549637265375004060177265475136701593543851571219877591456342548519312341690023465081113823234431584355720859514056511431556537330751035809127289541847034419091582487949532252090621454308405252822052389424011641712023647010121959621085543490205906644075432546214110415309826014394461664659124227950963117193203255448906472363324783016635048325137858906174365573642772448253741821639527663094222615366876223806599363402318604487284535801820722174934003505817419705164759835060761340042824633473372936210125483126120486290122305956708623663416728314",
    "000000000000000000010880545557373032260255537273595257715920500544806804135503851671613372077276029732468546514987028484294575545930949041934270252251248783035851689507101375939213061511191631972113940185751112585442787854772460022554633421283615389439809037024995651589502762901700138014464560206744291885866917454156834728655550525483230914992105453874154465619491705806699366395907562265208030449902004488600146259107016674063342568429733548200542006031670361548051945775235545249823937544989266171419503807635070313827663545174756931200019031421534578472921452851453500495953528697262726154916367324933611636232134501527527705226555388815130045754435762013",
    "000000000000000000026265443379565644802562116538835564345000037060988706002066110556211229236621720754755166761108104164482323468053016089594389129583559565834420194020401648750008397111028613907637093976723505023415848438089515364464609845103795107365517374292822423955418425620725790328415266918387473832095456376627456519632439333621600662219381382438322507356631222561322524982915363186329033159917579278545906136327023542205457084010980179841029238560325730467185926106932489208706097859490203952490443119277615034258444205655793803635344554808010779598533673339800116283110315474382641511250915015633691211581341262130837173113762051008958393303343418644",
    "000000000000000000031559516381388392062635666397540854725449242452499660027235413957833021310673753441007134783806647357042943272939688374370086264037595602115154884244893075140024169970160436096145721535707475125660925565250380064699900902308191240435453173335481822133360204117531218186082602640066418816353056427619210987052293151991575041606149750993647428568881421260675362763428713360255545851248578446970099243027440014079250936558700419623889104462845249691247226275034594387381981802804145461974357503511230610502032252945397333859567231264017657310523098205526389773304747108553286030325167575935740025402207184680112425516493288060365080302797939643",
    "000000000000000000041546942455198766399606761058314726543981259560477731383507551015617242059045307504359087530129848403263184383036005392706015906665189643466652458291836488217490501454565603856393661454418668341006255135171564302360900691181324415451101265151131548650541895652306958542861715203552140506202761797514066078302825016802109754324068294198811187528645035217056010275245809797178091711812676653191080134693203062140818981584704108930992568405187347965295736297503075560101536655609140495767500400244051009905683109545536406998397050715622112005484402041084254233287933158122331631011564116514304316208333533103703653183496045405855257346190355698",
    "000000000000000000054082231813167405535348613493052349664444521135279145249081586176427626551491720048489650654273135998604453216034736453490190058095550730358330515030355085314455618235413216321599584253112885033981669659041271951027926765074190434224365556793074059554569142892816159260242495322990356355975206682651593761353061163400904900859295934791856096142033958626748385081831610269119323345760053399695684952381501823821325522107371045953854499333570252241541030471407752090941713040496269084046524139291524927808303236540866635192001162078463723063295710825002003481323413726611795069815531141215071362922583036438362263108693720957174075521091047628",
    "000000000000000000065199222014376055732053867380380528013673317871503849952420991714541017024131413500029395600954039367434383128438435552473081838178632761130249789463164815815041244552872120931169765047157977014343734517871354923203645974525542184712983088474782952418571804177427132213445967519153352782431135340207364469861801061741050612647299503692410953362814740445843646385276439959477682621817401123004344353666526492287139980027544493724411057742061555330581052783306238219924605964896082880610343814237331606452447215152686609625527421057316415586202917728879458502353906145649224951662917129211387945924110334161002730521933816419083003920639306370",
    "000000000000000000072122246136621191994009886033832587509998426594206403164327200474712083538230208435119369070616859409239655170438193390050380101141596182395633255202131407030156024572069605632418182841926458274052165904578029591577205924059446344936113283662782118982038735675854188380633705737583081133177962092041891463012377413284588041119303893820718673621090349704054125293782101231383740280525996558280324958012639795601214488536480305255216364813871856260386030872748813189795467827468456340945359044354342558007719414083741526200202164357636717013685348543055446954776411844055150675356290381154904137434295454187154599123122067724405291870638513778",
    "000000000000000000081485725907242752045363064633992460013932082791454512656060544619057818028690427205582459850896809426162161915653167000166547858204331845470713723054482626061993420653210801985216173008951786319422506529696319242559023976324391216237560206531259802624588080159254429027532639018576058695064431791314401534727156497432730401310098404595122306174825715434090245062671643183310851530059117449285971343641248430568147579172270745330799434475834616931436060636762355649854289353361358660413438000253210609940643214415436414755247203379707060080034330901187038044222022179597351536258727453050487005639455083260928702592044564642580091293386948140",
    "052801367353867380383764950959330821862015232258574697544739054904397956960639702293702802484486419713313198395730722670306406188625605584115811115897234825424807250042322161146023116732571318448438873382551124151300630250290393116088249377533570936704116430611262830820051064425735851502615394642728337970355106124016374488515478645511712711550127775244815973021602235549211531033289523025615193631103269485680740837152013354916319388393762750159949010103101704423232190454607582458346547412809234225173124716208830168548164097745680535409122991300602108438410696136202216100408464702109313116249449291912928602903623650872204526576392711418784571093510933704",
    "024131413517145410174954026988288672912456830055462157511161454355380428433331465168345179444210137820563252894435057937382345126016015506282067145472295602284261533248652517857153402180844113255056710743947699544821051908761623543841134952404911789463767028240580152086183092313035005130580906548207134393957056935617934197902547004132416236274346343527639484287285575020379133624597604733365375499012142388246449949696611431708512535572043570135474471695898037674113971381814008299371767711339291470066255913295204723363455134821979464828540364928929934092074835521731531504746951910252431813027675046231597834971059176110331013080601327605148612112377962343",
    "258750999809886033831062144558087192219242671121602658058088478343783440876600343815359750432063724037045477424221651219128883622760843046643272559209159673416738214403813835657906159650023043983577911020436182311012428542125302194603610464253343656311583627390303801668059233572950867448656229030318535724103864910583830381931306339902371348203009482683452912171864555033059116024332524408091140170016691570592535811185479095362921606403925280762289260081565952470147163939746536080103765627111510824095109651313485807440939592815095426733343781981164116404021167063356214874498154372516904945853572056413331652722174493227229830409226050922941275496235710394",
    "031643272042659420641804425817618113482352842219985097216713168214771923405166513721700909514716102053980571050783454501232370502460058332491334852302485163079558263341184986233245437285567949932598140771527365573750543412327383882208423782058742922231754395495883355587505183936800146002411776664838034571255342065206782412813150582584808804064315091834361761340653783334393176035906056848257274436312655388550174115369615020261212174031863006538783215992097234165025825048142721150376534853107072040274802362486472083101012643066252750002239153640824244112673116955706477912823407620535324110224449264585129224464634350155927360093435854050076132384601955140",
    "256055841130640618863202504885033205690130833379651082023791240925079028473515035668120620078131705259565077481579955173607982096665373442393321634066237274643753459342713281259691269041242312107161391165804610641394607763311071140063437334038652038407666015312335908693033144922432323021101582062900381343728524885152812721702127515810209543738614522410936664440051295007068444802238514983007611722629370423455811954866076353014105347463816431125393347512683522250434685026854981072685737428658510840786703262211095929863421561461271719382219580339640252257773004421662552405006241111513611688215994643610919723598191402897217358025402839844928448536210338280",
    "072500423223482542484012224545634943712542258376230849147057384565355506286445223266303093392694535538580643342546808921545935158711146363624983138489029086013619610582373564058097249673559131396189720292120036600332575726758157311741038483132814243420401069481760138689251071812424948509073150761658557385836442708404802140546773204172050612424482095820045806039713363325926220131547150820301374304024510530070183962980437324767761383469355552143902582440992323771363614554323980458780340816686278190717604311004795044947292059471646763643581044255238225111216078530637282983179653013450675533230997608594438763506416271402662675402406383502348543855038724716",
    "116732571321611460233449616420214292167662346547241100859649002080068507226098643748062295108972623943661024972243930561057265745651051126233332928399473212043264453171065980510908605384218145851032270535658271476612584402629091924282457104251943764936587536403641126372351624666935076280076520952778622252834164716336980734556718594364231914461583362108952166226202727237128019144599533079594321962333969278816054036192259955171146444438842131254562235056447243392472062305518992244096081840251480564489765427420621024632548312520832962922461465827162981019825759543142194830478555844140845595322181079484321407265062501925702038056352007137273171133655836446",
    "133131983948448641974885405678163126043515042065104812451245630905763541692559834223308681614036415112807489975784708532027453629359084134902056627917107664767418103555535564501520565593361031340177352857547555006296112752464051442198129012230163586011876181856253311307274032853559153241165315020291220952441453153645573727835600252063693755354037535955934372062666083337497272063220402562654763430716516245002767736452540671818701167032834481238261425821187828048591011748120151228033502417281387254149365375100010515361503239976379120951540293064921007495805998842109519714826728280051224505412211384864566944483479510443552568570592158530363422972099436269",
    "306406188657307226700416654239576920838441343286716153309936359165150256593045496294351037449576548429854080875842930320081040349604338051683024811474403111515714738310463344600515397850787924028012175361539490224255465627433421970663906091526700888244776575656500312597055752919256187040035424736006362492707632717517301927723232526485344310542537981618927321041255875722693423165296442902397151022659825453691683336858221805567332028137984317132023493172188718711005231278301763208734407959805552736096027597298875932336714335023472815769047713335004190368254845535216271901674713913342142240519045343842790819757408692985957874155555721254634557573663518510",
    "126283082004116430613744737759375942009428434356966340955946500961744840340343390702947507082443144227563090004765462888146862070109424456203372030257211715460043959251212935628243120971347052029367144471146696090160425406221615353464306242064380027123994461182207549133116612992116009510084055633830100650282820397105673290618537585733732749356434510188120561580565405821064022800346012048322136247719965372244061349983433093503606552270820255715675425216132622248425453965603863507881076552453020811818134705550154948364948589985589217079492205051109878651976122309417280633482759915262285581912438257622557315264044134416109259160604852158034170592470762478",
    "216114602307250042325907932461346261541858997359465913134170314672726445248240395730705002488584590428797084340810651873429412697610203078092852459763430804771361428588075284034662399421882755672023055660558275606195262256708290414520818497570266323127124545391001408246193723450207813177380272158521466174461914933325990311705036504945100110116331455484118116131582724509317083485226942712164614480958307530201088227535054014337957533614712915412148127654089750982407551389011493082304377043064316374100748457582231576631569591694129015761018424977444382281021704618723269005564724760176390696131795386451007809174501803673958890121302386508044056680124156143",
    "184484388711673257135192827311501353422857770490874087557007310784851246680532652730939346230834347964994096364830039414591510208725173361965695528619204271629101028157473039601398181870017604757546722982827591486400501110722125553654032781324771119839126560834196443241319902251424492334674608624348269554853201078644580812342027302996250535719219130588043211127305370917224485442052245292528054598930039482091926806159085590499252372313844397202657598312238136698544454617000464188932486834846298920112358919181791461555929462502316850920212383539430391237305648027856183263290803660138466453853497251191361141917582783693836246009640250807744376934823123306",
    "151300630233825511240206450437128601083930695023492244013961311866227748299531425496124862354801645335385115714921218246549921123427727218332862746304495670963239746315761470019515467264728144657363451772126422216862308362052186822948228685463411855454000152351448115654422154126113616325806129912897607280539640082248600559162894562515022560209361371675028148430151777238264403285501811866512223445326174315233904337615498283299432757158394213345155304442560051075290372865326540115833432003070152883370709834654444292332099091881353433596444364336910505120231036235963352875420435151338750266743687377804528929549119732117057334568491734164434622714928501556",
    "115501277764551171270007163374445410426157874287630499453815105530246431067528321295843512549926110800445179704355654000339491815518302365221594164696233382459447752060441111413684581565175443838059910766510088017140382448174223764577959989396672708407971478941256918075410024258506143413125592214114580184680400158593834088118543194225952530338455593497247830451230253013934222292574661323529715788742058314976424331239494070053345431513985075362930050606414518682427712801431568367854511832865079570956524495356786018062745377853438737458601423634338083484386206325685453323703337575571735803343759239881831335922621562270954245241421621341428277122729928611",
    "041164306153357093673711624800490753951505757316535151810258025005103803234607083190223378166974498064522300344839942247450302001050595078572464101841505572345560548438660514454139633971839311585227632212224140556666062938565316715904440275207414041516431542193259325549206353334959143005354446245802007484764107282114785340729467172673056316682315163033120215028201446735442151985821942097552705662021274211763205450740504553504647918482055377429233530104172924626485581405664309193844492906595627663344804580324104054353562322490478256995563374833642520429171316961716583962869334703219101093662927391631282127998024520349864749455554415962046555582590719387",
    "051064425712628308201512911276072926182642931587454191928792047331277158471011300323405413226763479107511343910842805337591801060155199553220823558764065206173624539240195053219985220325245759068280302135845225062233770517598459575436150748529221474541544462843408530758274414455855401081194342125821271194859819280489355077332563135985848636573611264027839157563513524409837331836503605818264561508533373194194051609451538423692353115618582033237094378292617101761132594556001966443723706011954416976214817423649050305951080337592360641322312485382615043120352643925006007092763727930191614559356646573771343904237050822875354182212910269131174058885218160220",
    "288672912449540269884869816710497864879812696019533444735937294926502429962540534666915889499682928226024344065952930762123043233461780477290755319740151684630801433402726153102575506033874028543348365851857227270716532164135100753759164555438422623961968586680003130449286801158410078170315621064664410211198705485527915508811412578761789110481378370622338572375096408364796251033719628903064606390704790385061642045384151874786127008048062972925676311075277218806351010410110981393504886728788462034314544177524662475303854306814892938417224735548925977178234242151209009624228021372170164496453756536694188109710568431474900323187074320732533151951437704689",
    "215751116156830055465239757269423124165301740613132323528387552760129542745092045945424503148362933738077258895421848493158315532123924151200484851834058032988837598251164692403116525641841654043109450079046072160615541803065322990941902987364551115229915611034401615927552730693415028559132045151642174070221834383208672449650479516643005246434073361737213344043506417731848271205901515651095663631951677383033189122527400780867205018047561432850632423125830960415215082520504178282271949636524027915877152876036754590801829124705697843091272830439219414073325973944880180000958722277607565825432467149483431415679577384961720293393521724644223143754495829484",
    "284333314645435538044369136255171825333464726620631636702318451036136813435005641812026455364723345833725510806193213917096044314809453422132555552845261621168008744248025094922471033185621754543334110165914274080781109020013035342993108850445126336864882083204278862136486643940745507150044817600795607850555938917249183132504495487881206839436503644557060124458752371863275351831529148225111020019129604164301896520947571761700400519389871036724344130151653445036245945527845513278733448903161509833287157006014212025144012305340705714224564923190544812333971574602843320104038957959401564614229637106363523422885056481830225749490591323635421100294141735458",
    "295602284220671454724297527868515026478954802173241950440319617922523211923544785916439929232651112233636338702714065159161755929622039038924645438126547141032004299463586409136731300981868018195432952877634849028095775912493148393326338135115553026029893201763556254607409041923735743298843925708118275980311917840143623596330961011563674252753373482847706055214596454907404504895038127482141044601858805087391912726652383715653823626460120553430864055541563902796480161535103995480904805238301422912277216116366440079002247063750175060772602342419540960488716337253757278270156229362418351119728115438035103437465355272218460847071772517856386008162065442693",
    "251785715361533248655786431847573381792453197520836451552866521981853259246251752315952187305964068806669006165297643775090695810026701338391777711761047104130213618250232264602661638186509323892043356345434565243713098005358098492120732406033761336003134614314712135519448791373043227098406251911589160205985827533147183325537774412055240043288588923443435512014052304801235227921092812584635340801416354622500012019918597030555137856445212888424421474620093030301248241211265102379500594807612576105794151500553675462158741492882941623555113080275219191499265546305274466820720551764282673959114633439043694307171192975097303461358480132341624500323556205972",
    "132550567140218084410955663970073523473830136455836160221585237120231513743370992322320396621103748726306150523415929464249634013005778163822841851690007366449526077398910528640677214616026827768118682162700871138280856043428087250171451077145895651123954392910898809018533840964235180110880722243947214764624744270051843134459962281375389025941464570207946560228604940454818077860228740699516980002040599313670537550358267863641823432592201192751449270695009647368518033930022636354515170959629310925466235303138281985965318042602488619110417381309302094311141470922189334980847048907018423747156431389722440830254117490198355668252465363404369251203852708818",
    "206714547216015506283758001262123635885265477403790661827816182800747929083327245336450410031131760815464192422133601121453652727236718211520809223705383734893037871378375493844774230352009804467007563500858814646351646828172093206035637117324053210842025254063074521725250901934547606067470632838377602760129401375195791899652862158850876941079080116457512987198265116221260362132096119071106776112920783548996358244194093432640039637074444600823688536585832730570359881444546721154814503820847527822052158784027792207103922611551728820159583754816358354126986048027747098280605941906216711393156205177645780861578374046430361753524966272728544287856459264692",
    "074394769913255056713965454830528875595661319082440219430078195100086652488361943869003028040133523010136472320134448553359232372053847652630216244642269762064354786308442460750333400963218423486256341732608689269600724317665414362451015637297985332714491586604643639058052133195116668273603245148052569714989026620492901740258922142361113348574031482625321655388563085251153024336385660489417335821737108227914937107885392061219606721518062157709874056870779727688250364629158745069943895723292277293642031470182254364040625482105540716227089464536232453617664131820728499864614616412343325105443796599610765649661621514589054095564361856550156350162436612144",
    "087616235454482105194361700595540093500046501408775147630641191103158552007112936461802489277815600458233647615622115467601474969256427350160266707705562701458511899325632113945510507190792812787526983926506411449253238259011427703222161506250596509533771392772000311521408672676060052179052992160150439811003317837552753120116400614584601557136256461574904988082672754107404457024087164790485825673518130365002306154263530750532131278343393983534895089950192541641035350782103090519956515534055030515083625973208483248017169197642711953104246181120105492613681710553784530276431639442036023317034474630533453731471274570553233765633853893220626158830332762854",
    "058015208663767028245317601700271832798759217388695326954479073594702536598106475160064070527504641357948085295225229131452612065352361125231762450983128953686305296214825630225742233346488806625203643526312113395586417160384512172875003967275041924536014211341491454799430373848124463558782989340351652981700758034025423550904851345643026747531213500910864011161470765521336311872219256427546344894844051593932294038647183720050829011446380627860653634793443731187481153243045223173035478138897420355156303810152294972538969377850628356468368926021731255468615372620069011501929765177580516387151325529844741609799578252691019950576476281932454308232375000954",
    "183092313005801520866066012447589355597827905367353028213002074496390355252002244088452511410645708816478462300479405146520891759242949651571718117579613134657162283118851463734764593112145334954522634376254274282155653256981352362143610288351544238825964317546278328784033294562048344212354293762637334080611217225594745491939748296590325728340346011918602530173801749030774140581589863778489954220363870236446300757044639404649662509328821952324066074600150610009453744605861875341863175310862259260010704254248650604358152242285804149753400850257341005147605606362896378004977100034495542104520882409540572660935622160813363861399303555024812467086005652792",
    "090654820735005130581800810273571486316043446334032789407552275103364143905648732678322332065725795837601070732093924945076211619641943616424172418422186460211661327281092600055632090325379753027292301430634060112291523156451609704286311342241370054964700096011354941502443791608024026000335649152138022611957863862513663556517156098853811110239071206009339153051801715939576058092780822755003925030460935423703652951407328284665711309046770071306982498800715838750083622038150007024850104316427257610347757308442491975943724353860915612220450396083717194282815847710048212560139413097144844651059976522453848816005011544679253313094783308741623331731675153304",
    "004132416241979025476000401371173805474237114112091317755271327773989657484352121657947072028850547337563002594561736416235181494219771359915440149374303563162664718652141462364204001035110207833373603006155622365873697760443491452058413244171901990059068195054987448101137211228932251279334801862105567822322339953542585090452839341586113611083495953701741267069126150130190064344404031280396523374145398427030048304413349624858559122642236135764709376782678830186264792528959201405893239557801462630461961228544201837912616126021039050760201970156263278214920078948451174830537502213355925742546708477853523338920316030532500582542891768041287515471947822722",
    "134393957009065482072442411606529190653722487192771912561487007291978952593550095819540921052204943324301213360450939591342555406021517134160521347208529814823332035113290396563974468175838746148558725541111981559094085924372610254055542291008302954020776399271942954613276485596205969135505343540658399923332804396020154000057243576080326945037104564994708535326812698617999293763482917544449700825914437297091306100470522760236044073086713530617742060511843433793321442341743520110363646939880197122721105113070816472806509083060886923935111642887215823335190354012481065870278047055638791940653916378843627202798406940929615217194542978942672009723680134129",
    "087192219210621445581916603081019525388453129365252850363425340543973159057051232285645094484360084448818468280029704818550185872951724094815052236774333925183938182564131805721191465863075502048096766055352347269434684239711081740311056475324770343608404254051466503280200584132210701382770072405897513073525109632545035187635952413141937365101043245549827374158883335642152624542279750419115900717061999097623874757234330862346151634586720334833858235441978357235541843638651941397363231662202048145822310449366513589203584228195077842912624712006123300103836204432545238431926221932414172450103087275735027835822278195156309675288283404251252404393645262368",
    "265805808842671121605763853164503911171637763483626209819075533130007836972162465393128634534974353063978426601357753218365322451548012291915572407977644982722335436350092710663725255525755938628190240112748302609724362742823149822359432889012951439837839464553952418894452451769734415191011943329482629276100839735069770438343822236950275649720273281381912438497333189223712231116279231243429856219627909600896197425147266421395923351469165942734329169753474409509394312949214422157884015428822580595752225421464770605902820344601720123061142940586715498180141028510647424451179305962545445058207226167324542830109177934630514133126051501200518480743920441132",
    "159673416732725592094976459003189073659943014293221246728507472805439118761165271515532795244211730256001077580709760456415084659820042422490195337878646712197830004380762540657548179222732548382071362321003612628071871605551316111118623378343571200139228582743319109251602541395648859355392459848567142794151624704210515917745425270971269360750293990716624059131073158715316075473995606200440723218658807189383733015839419953687636331161954541004955019714520145611398884357806511302975238724671055931212635938653895135201938617435279552838241730955903414315042921938931034374500937614456204421937337464551365340929156066437701397175015306210589030140947118277",
    "159650023038356579063918927263428473597142677248913605209371471950083812442399412181225521585865991541181555220086833846489244364559331142930661459310566162242411859366194591420434114892827119629629841149156423606015255016191315593006657398164284272010568196990556002623023783572048525353270755251090332115863057413403706138265533427442278336883072751434536649463122417131490352380995734318197721251952777442544580039184398322687306208015201360926357619945917344237070023580327956553995637663780620933886359360176081437038776370370040854897043852340824035511013494040827598094473365224336002631342077357834729050940584784004121549561870446455465611311046446025",
    "102043618243983577914075403219252981296846610293825261248803600352265012790393311915052136283975272636284375571618523773592905069651965468100306215488376341587462802543094574130846201332149324069392513611245177468706109921769633014175710809106294617005946390055486623834138353813324340077153099722346565885271814413597730650057000078600316251091026801931462922255065915448323648491852040770516684663036878029711069727453193793564507738026030103525644054464653250831469542717850302382662567946440356966430860802379385049122173293052358019235254033906315204466435120011529492340283041773264806138104954440625803026015184775138261994169843664522198365664156350732",
    "253343656346036104640608831218343194698429766159061486608016358660208418288435634678140065100705421619894401333291550816025252801015515165274588643183110461008322609512851381232534222812444038604354281908053436534011364427902087273291317818452741149750057586406427743067647335462002445585472757838970118321771159687059245917831917029012652623792476534434004738259810214221193153190035027454623170386449835042992847914650550522946613093644860889814672560772424609773265093050213135309590953603638005806323663760355001689222331629984418004845084893811059758243583986444330238935923940014290134560707543058784878317876280990074158411392732520001173455542904606311",
    "030380166811583627392389833157003791006131417075320922835951284760977148647126481026163367447641344123816318211469825574491255252947345466513008133858196094681351997581373129160617494732287753945099326286530783224102566527544504790078018717325750756647217580146202052294613252087010047537061474344604287116506144816055662342001504029130162022267394303217154053027830968228935383040626219323150411417046823006061515954997107201158555112603482966514539059552513762625216405692202424327982523954146332820552449850541263625649166200591322358248187543851507166090803420360778159803484521613375891245704281626343208552924043163521026035524624784827383040111119453012",
    "268345291248203009484016308134236111230120606091722548461379029994623549850608931249702029022535111512153501551865423369357902765428265194704578852146022866093820845637691714765309365924716529814159533023329294268096511159719133506398860653257355749412169401335374108895553482936219459130524747347108331550024502377376856192932282473966472218477287063591424895229585163955337102615807330302230273106642457427654363420427400475916759218575856271807599281902981861409420861851011236578961359939167334295985103296238835427027048265293966418883286220727422509632330581918884364544680215599612603069813502127632008056328085255994902496150615546010747236915531534645",
    "234051665116821477190649535200411130756960154575582508657051323270423309267028724792100919006004200060630181600929310586334324961057423210744224046824018374271019599530551114510777645512500929786173872652917617304444116340516044331775525245187950464816007239812838413873007264815437477358662417639946507604078254011214902020127313357713100209356313401801912438051730752926055232023408244467598211160957209257654856300847379092551533640488053093112709460971649540749474274686231382471433063950429392474189933571528861542931604176810815063803615453345251868555882447501029353435479803186257162824646229304732261151683531394998946483338162911521421614012935658632",
    "133485230260058332494600862513201095920201669492143656647446391036171517972057271149823733427620361554095116264324764666219821387854830176485038049765141884969660265206863354051062340861483636361374634148912402130501393961166412153557650660043134089030747483172176324217439833318447431064085509926218393261468502340242335116865414265125221224276047484027749212593340954350277301672960029757003185686059044262423964509594627501746809865441645692154638429644367362323332970589726305513213262456492218162991333826626666535452016398332789412012161630426229205145771210942946397344970253941260544542249325532433368529221587630972760443356933896945107315693384743964",
    "077152736549932598144525817910221224457520034175020619164349602634656126954271402970222814228304276638858441695277407148432613362607648640421533814897529025730660281547642724141332590700268416976002623093334800607304074955738179211036603257084544866340623396363243551825296620183255672495682422829390390692034639451566865414129403041685997210448110790740647585320775412361961306891521963929651181354733801531114476345883145485254530512431625707246575379143805938132242115132105181136723156443394167473403550854405722712154486238601253546240038130185105182535466129017140153172841400001266982277343684628510854907857015754594604377590320870108912213296112632599",
    "001460024150518393682084640595588964548254528194911462555488453424362104391377794185516069650884790060485198785408142471428372590623185171476029058256361745843459989622722501804086131462831637774382531522419644228125222313517549620870303184625294175731667326175802703252268840884826931214440532061592172364782655776058934869829814495671592415416435971002102606056105736005019366854446933429330966184155835393921708237161455473751146149621331620012854047456351001924594890136514466616343048406157304674040910638259864593753076085873861555358064724011204832394170098164472070743616648752597802710162747074653044038384196023101734355269064389855675419230913857181",
    "034571255317766648382828030407481993112055799651361630949706234403526763059077446243356571233075183151529541305632948283344316463737051641455762726768571184392322273105832244850422539021634443738232652993248137591830846947250151383674660361618204197829925113184211122151202055287332460497925714257448279006439124349523335892163587080121383935397584022536637599288000679713146152811987844073428204263163531412481087248356340065698909846380551531844228284486033435535531852822418023581071464444663553373418045992474954231717547649933947316473387490932307378589534392734976341973894956492023502812629071326455543207517394500705828956044341662134143483260553358274",
    "040643150958258480885819242227160324697618011601660006623614382085263428497428943055050462600702219131728182320628531385585456065446876034211813021437639765763345222025092158220350279926329249381515696352315356587483766563724608326232035799451825761409855017156452040936365213420815794574734618522333190134965953225214403617109337496593543225064166586207622894288165000956047328806220225388257221313338564554534787358855200441506109652421122055442868274036311362314012710777414871056031524126954280802851804401380714922711577094000348924105525930544164336218822066438638143602579119203520722647250377484704743202240086545964200138544664898908251597625758808648",
    "126553885525727443631055035991322064735037640205795630443847105396321527773603740789304522435173593712152311961554911000101304173560300294904286736514172495852607774060842760763734052812297836172047095266406863344970123937764271632947310079479280190430903032825103425943547585932205033016091505719316396973587427563616861575058726636810871319165200280751832047431584712142428116044315510570465712960453763337330425606730511355564455353201865409120609175482864018192366510800940916642383069056827428826182709541426302434200869418245875544745025475211951200429585849955094213744272155727439635847822046248761373312657644623982651206538290169962531474402048128618">>
PyWordRow(row) ==
  [p \in 1..Positions(row, 10) |-> <<Cell(row, p, 10, 0, 5), Cell(row, p, 10, 5, 5)>>]
PyWords == [seed \in TableSeeds(PyWordTable) |-> PyWordRow(RowOf(PyWordTable, seed))]
PyWordAt(seed, p) == PyWords[seed][p]

\* A double d in [0, 1] that is a multiple of 2^-53 (a value of
\* random.random() or rng.random(), 0.5, 1.0) is kept exactly, as <<hi, lo>>
\* with d * 2^53 = hi * 2^26 + lo and lo < 2^26.
ExactOne == <<2 ^ 27, 0>>
ExactHalf == <<2 ^ 26, 0>>
\* a < b
Below(a, b) == a[1] < b[1] \/ (a[1] = b[1] /\ a[2] < b[2])
\* a + b >= 1
SumAtLeastOne(a, b) == a[1] + b[1] + (a[2] + b[2]) \div (2 ^ 26) >= 2 ^ 27

\* random.getrandbits(k) for k <= 16: the top k bits of the next output
PyGetRandBits(st, k) == PyWordAt(st.seed, st.pos + 1)[1] \div (2 ^ (16 - k))
\* n.bit_length() for n in 1..7
BitLength(n) == IF n < 2 THEN 1 ELSE IF n < 4 THEN 2 ELSE 3
\* random._randbelow(n): getrandbits(n.bit_length()) until the value is below n
RECURSIVE PyRandBelow(_, _)
PyRandBelow(st, n) ==
  IF PyGetRandBits(st, BitLength(n)) >= n THEN PyRandBelow(Advance(st, 1), n)
  ELSE [value |-> PyGetRandBits(st, BitLength(n)), st |-> Advance(st, 1)]
\* random.randint(a, b) is a + _randbelow(b - a + 1)
PyRandInt(st, a, b) ==
  [value |-> a + PyRandBelow(st, b - a + 1).value, st |-> PyRandBelow(st, b - a + 1).st]
\* random.random(), and random.uniform(0, 1) = 0 + (1 - 0) * random(): two
\* outputs a and b, the value being ((a >> 5) * 2^26 + (b >> 6)) / 2^53
PyDoubles ==
  [seed \in DOMAIN PyWords |->
     [p \in 1 .. (Len(PyWords[seed]) - 1) |->
        <<PyWords[seed][p][1] * 2048 + PyWords[seed][p][2] \div 32,
          PyWords[seed][p + 1][1] * 1024 + PyWords[seed][p + 1][2] \div 64>>]]
PyRandom(st) == PyDoubles[st.seed][st.pos + 1]
PyAfterRandom(st, draws) == Advance(st, 2 * draws)

\* The numpy stream np.random.default_rng(seed) is PCG64 seeded through
\* SeedSequence.  pos counts the 64-bit outputs taken; half is 0, or 1 + the
\* number of the output whose upper 32 bits are held back for the next
\* 32-bit draw (a 32-bit draw takes the lower half of a fresh output and
\* keeps the upper half).
NpSeeded(seed) == [seed |-> seed, pos |-> 0, half |-> 0]
NpAdvance(st, k) == [st EXCEPT !.pos = @ + k]

\* NpWordAt(s, p + 1) is output number p as four 16-bit limbs: the high and
\* low limb of its lower 32 bits, then the high and low limb of its upper 32
NpWordTable ==
  <<"0000000000000000000055746333754174360367334975507317680486322017359576026851578504930614690108310166114862079553298313524256007246598182290533005456953975631601636183949347808187834143632703356270048736694491336128059399181761415653467510214396637040001793082425830629605619055487363273817502201042115012754137478184583155481101501151150249058513252656569192580144831022354851327305269046641964160192315265502527701150552642641740018556278100350518160814501888005426032843950027293444658043424141388216862261614032957584500730675725144453633020662746653530985352755504956428001622248722897344927445316226550750426283271055070424284511802944461372705525488232285735415290088534486237939010454728330137554092719534429406892460319992203320075727719033523183946273471084589158293311100478042642612133118634822083482344830540440884244937455510511668557069210940212447153549473894803065330573795422145229424985037564256650935921507189225834501306172964777914887000034680400700408411262903181355670550601937247161145254568109352626961007515831800120739607681568720697518840794057441177300519664620038382062643991598222202750310375944216809848468675636342006295132888358654191195218759465462252186815115241045026648520034091756237361470192651246489653160556413009492096203129408059473877040840151313803243466",
    "0000000000000000000131010586233354248627494904311062289385870228406349094474223053932286266217045230163332935320436121925695228744277430800517902279405424420787168421505026817179964219364042360181126605619006100180607474567271285349382154065491140100352674981853578392402160919514296665453851670303760812106469198701155608154031182972028684640223329108784364812512046429264182704559236095571333342116329156500417190633780129905875491755892904064387251837656909326526463031797311750766342573642733887149093135686302310868060360918247499546281921141226354695526060616183611814622409475706197710528321152114020482635650208927598228303382104641191996472807593241682782636676408610161329858075855090046175237795346240173514025064536019601160146628004252870259449726470892811734641410225715342467301030238624122291870408609307299611539342030054325046726490558780954814080008103885864393527196480717045489112258608543550423115338114013723339021108441502720033481402346428663606493503851403547327540969414322357215842853715037130452300691447795837149774138865158312134572353929612557500133639057502525834834323461474051253839637314235130005344414401441757689560481015743753394795644504928550510347057444481782035145963309270493940463106381796002306602561284600464504675493424720423176321616604064924717964314",
    "0000000000000000000254891227211714500840071632902819561600032711945342533610643129574286690602352637219465858139328123255329311369477466177965067642731231418660576864060703614058563658358477180202572213195516594308534738200343653736848421051704954658098343148949098115422835258425444800507643863044406194735405277074039214400428774149624431612726248863401578405687812126447652203224914594382566534410026070656412271514072182241024226725755237993293863349314394453810125758406196515747654462508272349664002587962085003644594690684460569313601466603311308613606137316255924546611762458975523107025614833125722437068512402862772026631323213531294314725657963192553422613540445520812232720066975565536156389250778142233508122974358436266431065438902126343385430705514333181738891599243091222359564995008613963238412871663477318616416058473555642885922715402203625905015269595435244765291213872032640394270634051513453845690441479635902221824048504083823534264058210372810919141702727316957629390659946613328395657502529629313421937525460026297237962173592991241757175401488258833593142109032419547343712629086517752523738976454455436063811007765148255548388012463806999053255019260875514855766326685582922378452581128561254064289257561125737909323525760611875348155154633537395706542910369019840738133213",
    "0000000000000000000353182499120561306803117595426115519401971188560470525122119156966018283815237433025820385406168533922177110503283852668340712516823139506938173531052910468425664531245874481411626502142166390744939944296303753325639347795818432749338650554427532391842822141808436685867138456282571132649482483546142249593524946266961001515242832018625267032097050520425031243642622103894562713864569673918119183489556152239617000974286705040539456379645388618582417319556014770912663282205772533802824495115843911581434282306938349156251603504839308874916612474208515067731595310953154001988495421667322143463314354934059141192452629089166225769405954080893988527959432863489234092426806104427209608132922213578314823985600725412933875316247554531954027283319361944948611501861916958975473275196142845346501433348107254171124454387305525522537947430995867300309293094474759587147530745353744317435987551687280866251162716240684972234150213384088157572050712520403226067054183838890343485569027378430172569025816276345912545665314363706725276520470959011951139315107845772045185237361597191350724641203112785709063918097232796318046612873434930599368184992026098650972619157023084510613040167417116105141551128866220752255435861181521251028834648548946158751188626878492974678921682490613715730276",
    "0000000000000000000447608100626180408187577631067733510237566163236547639790704463588440860529743886297220504339803440271855515622246732783941089024275255326050380700410011437560304430055697571233206814395179403564748735221643129459127371890396803253312704806058822430302821300265091384212751704270066320642905644972955660939160932423022907480162096963499645213758421225608844412838625581401164517124304121874139901458461991826423461940104626755100686178738136136145793043624343720591345455087421469534159344283262816446326672245332349569795607029080327825397123863495066282142513579244510422933325991316308687146650431710803291113421532360377420628542019509655891945046615452096135017031953814264717051885947817552477806530727353609334682001761348713222546416326372556944289187090755755090311974496024096389131422000197530701808045387059501177810579505040257835267492631250333782433484104630141036573139034589237115975363814485301118862222652685100014506329235271811041630785804508376542685794828961022734194225053574833486949877484620776311198044760275027347193874074459969123692156445185352040189404674126955375704638627601577818083583035576515480246494261219957399862280925766100235467863729528260636535579281450543241519424983274756586062585392662651023045622317284591915413709407533072588726791",
    "0000000000000000000543960587925275644014014843941352949136053072644480337722463941303011421873018300641940433303534263781821400655251243034137433091562676945874085891377402967101650006635508031952525309752472486548200385125161390942753433914916863341153685639818496465252850447368172513551963844174561164710307588301308952277219775532734424075843252625716414244115838739323104958143638147184434733643434453563603984502396285535210364113585559212360921778955859236923010357648536931224855623042082342024504225734451055112080113741257022078702235119390148973583935681024375868406279579292744457160132502008448458012133567650996239924636628147505264986900078407930248112141329883020221964443032861726996610336030813320247633460146354212952891119330603865283608384100412352920739002620778452810097672573018416337124577744682379810377229395515231111132937523591956152414542301543452857039125376820957266800956838386524205928534049163973323114257190421385933186293246340326580154791431250335598380095242576205653303561159499075709906764056244450155249295715537308051297060770824109283186425018854623261586544382152552617648099137763368961370437101761522780364483191944213379031573733349206542020448589531211293733933441965271461904175714484004770423484718030397126656343161212145414512823320371314200442802",
    "0000000000000000000629166335343526909105339320431922496393036200613295241871249243105131572454301312294854132564713127711222562931414682064927982237864419232316495253245721624317854405857465445590549429617579820805907704404691794103390083195806039956557180918155461007430058265241636676281264144334853839611112541983082150302164845145938366100645977203151130681737951381135944848035935472445569652035490232252828343642233561210592411214839850431139340801358935510072961112211482983767055073325886225456164271974977226317110980106235380053570314221934070043229830925116935676624303141551560909152449776212664403288132692107785155173845950272214463995820915512352804045095273973917853322145435812806872169363748629762155544405865288353400647237194630876360164033150600816818086544494978941327586406355327103555782371436926513571697520449603003121960438577561105225321193440429225879339652222056797072135443213581542483792150640146165863602085202840259203916165334672613492156502381846057566005080030626315645694328629266963565956539003481331458293409444539134044011164831652413462265721525692638073172432107484580987360580249090849816512079456159661379551392672230256311730601652607119762707117974390574757148182296064723413182003572741633801091353331535568400291627612854569300601834533554754137031138",
    "0000000000000000000761925190834096616809448382728558799526683789863842508352211154634100501475911691036392080519671457211868210036572491301559809441440034504390327540175753820016790861406494522364863307804146253066638343535075639219859349382238721125182465904247151161121670308735649105057829168341293133563262330660489538177349573627400161333870906765241069845293103427519475842745893122154077509042223493108664812322593055457833141103085755383422731049942981561935207740143259190751756347028795134329147460910233822462092770755733743493966358717406305531822352982218976010733238539663108941236636882892729236336931403017450177973256306387248625248816221090396509348259007726116106369398471260917492635053775645353011185779232415131466306247249591702421761056320480339100244476634047114953543980052543495358131012249899349831718117537254296323526347576932936212204589113340942632615873879055518549544639428177419243304602759651404861245928310321120905996167751602237100354642631147630472843327723676401700693057104063824495905845236755251842155512483920238733070925117603883075784326401560254035490039212082422117033422147881873209843320762500727227534993499426279531662486725185377083023864143145062570602749386654558628802115503965263350292096418441811487533585811076443315525862702353430988202858",
    "0000000000000000000847156255882142829826153683775364702114821153631717208870219642115161985167822482419252096157009352440316702422256300877437594157942869701732254701437724428309400263104163070092037535563354763138931457627935379215817166575563306955168521776009370104051210637179260704683312705070175869964858533350066752727564562772045334019910029616772004082920128859387252682329484315403960138613248112037942392319590179204693597264271335125164740984359490534405826224339148665738403165186525885758541514940109954301283741409011898208952858757650258650000964703451782577600700496352399140417578392543017639296394844605068054283980201483259962507714618300941069354598087806426958799232572158020223572245454706298368500456217556239754486963261462963015820387459311005547119419274025658349568212240221360337840339706640097893396162658459800674955613471923715929453403386480017469622311982107784115750083213368245772790427336203393291547115113546455148970024123504350880203834746907465029472948460728592645352918098248591989840883294363198848918220563342143029402973221037029439783061619889461495522757354340071584759941463803740041319540151374428711059075373747190555414004516133329482157830083319672545135187088375283924824630301682248998599621316904251348236443926691244003225219755418412646206896",
    "0528013673538673803819811604012094651903260514853524601497914599927194475811029437692015744358147859275921164728413465866351836779151721487509988383215371754680320313770358790147521307951245349446426150895544634430424871381210999435880580260385350847445051077861032082533301023885271240311052699241496078362802590930622139446287136465663000466351510251703240224070449785591526028063065193760621847633352271253617183474482190936043116505403031763173655809742946316341823347355546590769463056540600540955867418635863935722455925418918169010871833807489011211271907160126992434445441533622539822721078825075354611236185364953778323884978519517156452216543082451135490803393384532696838126018594216263722275465255417418139533012203993529813024557481201131861802199231394854537952578483791054456518360180208462041510549835867428350483112755335371279454276078334191216662173571764353860039911014329775096300505317660269902972715044211420054035513048824750025476618065792117862489660576211887642732489661176061251295021379090585840434668168742700651838478574786514651315003246235221287575226034896046745259402017357600893646304068965253942980334315555339028225770271842668007922891324091177286521456162290961920250636447790084007831592606351552032489191835005432544295847243129446216330124319055433965545157",
    "0241314135171454101745077018036204107914384851370935337508975448701747641814649058892486124068435624497642720335402154003989563196212554066446138313772269202390348012183416197580711087823727324312950946178617632922365420242365733007830337001944215195249833711763210476952895021417600835412530950590124349138904123081735304570474873320219870016811949554190483143971410975093574541338255221960571438548400111663522429440994978126706168164830126424567313143720787224271836820786078190230661165472474603264545303500096348923517526280054560145985449529902286131744606391581272543743945285911513157626447005827141296550980465446045451943020005536423233669241504495080421250878337571674321518524110365710420495632097737127272735091804084130273415121889496271339505342271924513556397229943987917331081942815832766124164030502150098115360353144157472111456041237632176204886578834000215215597270035236760567823153831895626463999142030018666209450692631881633934884589075597547097365263779704564194085810944839190721393547395211144719741610427974270136605052873686063377293356551655585079184491700583376662355655728193772497055894099692462535653447445088228956294424287804861571774065019440230546120431009230503537644220606613088529707381452396263307099762869000487027770086947139083265027327622188595890332329",
    "2587509998098860338335029296123220413130435270787016686349643043940517136590592935173636732169309143216334765647134493012612936444384144866408892325443273649117071555283348132161252183432458655012825752614252756207115540262444129543262547056497457803517071481245700166174095728843135172537147176424140147011556143015250359165523815513941406232711439723199215065474625450218214234844620217085762164782144893552042673347683709841953336354260046926135185218911702270162131517573016636212720322483983447621175636401543903174539735554207399026554224256637089481058017585599330752136339458691310650328355732104061764120071463802685343254381222147369595469731089595330090015602042372191028885449115150865229573493974105524522135895609772004886243707534189790398213563363965431949441514840744330460371333890144131622970675341858361860960246068375482856254004098585422963834547714224013629530555506357574230520712432031264431383109483057945915428186478941256451810226946291729599140561185343120439971522538141060375263756534255550656206065306804146737234083593962442605610683463806615578663877162579598500620428035647513358059367106974659838275331331743563927040775876601881509133066225261338043359000879570152461746801498665749902256485633357850182509765452251319415620673100660192592833354308330346531731275",
    "0316432720426594206444167373044916524050625345700800462647331884722388407094748630140220051138062071624094096652768571464633420894464564369932106180022899134130343052042709002062650082936582224050163545757194675183118069150535346809840565283030745054326275821722125224741693823049641342750424871419250021837431421011238262523534205458642468638463654329119012055093718897209666072202978323006290403883520542990433573314955168624933275955214405432202114680906992626362490402605608106433620558515583844009999590103666335987365394661456012332653711804947521280521434522618462012432486057005098859837634794834457563360960153610391069661713925399059975274830597426620767728652637344864313015622734139707550145011660011403549156429107638391203371862092184906401009224578791038520752490096409035724389401651958255410331653911418218914413165060576102774838695393185717256161452410555233469349804223024899311724787449215090180967460815620082572550634437093471535397268746407815900178451130614288396844458642064093525791429604259650596919446196012727953002061173571742828481471011560899029890703705552106666124929442391553668350548347502420000131000551423604099386664167663545574023624946071490293900536490163314279136914607665235359812243733062355138203732960644039434382815012929394136442841947529443814013630",
    "2560558411306406188604490384963695447842308023002218847380345971647389321084097513524182243487817011654150299032500398494816960013023173977647115107444344359810374124997145359356495591832036412752768658925518435503301420045281945804383164393848641625443551318153685434002393540842285530957152647308204655419846132365333011225022563987308003102973065151268399524683764456279644218008426571720154701432032413006225481515233174616639623033451463784211383197558752471172963801056318351433835405129456149542878482100489419171510566038761865094406034317685102025314541224050733909648714104554237855383456935759540337398822087515865396105751652213059142720944437188240504107719135600114226992446990897054314184843745630387358503981834018192862348416275165486298912354018364214651733579095642206133639524141946568634431988801984254183640057198575311668263383626405162251136553202423844299360634438813283216194108959776221555465935787470552579562541025150268160161323723785105623601155700116348368661342735016551880968306762583161153350135606103702741036216120727652542042090467140008010893981553077511214402260880156514113202516409340546758495391353161428162295576335436164465512686209674172244878107455091111592612177500150796649040322620564760219223103519328884611663214833497173385275625947080231970050638",
    "0725004232234825424847375089352641864529058362438450540203553809261301500402564448569334163241801479257520489438462031454953314295579491847036669325892194957931161750662248003231384291408546201604025507929141293521141056575710733514895012182213262556425031553613778485313626743222106783795419292499672439060974196131579034620564795917344552425242894726634243300340314717266210521611733330582373403745061825715637811103770458157001550174235514145210545521323187336220404962329642024779909589057985994557040437993929937097168965203333063453201151232864621004258816655258410501400477138046477928267608076006917094021275123152558497312421562238033315366007598547705044600825638751641831775468334923710987651774399232761205821632812951576100561939203361983035504100625063798761552586875904401639274900499115415346105363557030341355215412534490722618608009100695948604732559462401835221363665472419649294641177258443607826334307629612944595163661374472059647733017974665243601077535304439242150492324827283565046344537364396676162302293489864211215513056074104315019109242921708366566291178323158469412034461860212070062301037166315600625961107793357846599167211164243012546652438650737602151700044997050462259628612475941139328111309182039259655140804285356470360780627311809560865044262691016421939458476",
    "1167325713216114602353341538330946830118011015465764137631774710946345322481929853302331124930261023334500167916287452560561302237364530961204172570982760235195570615463536800078863332540999063306199948950208336052036211165851338304664012764225339922528955462549990617140140252928231704098410173112475562439523146304934008122391654465610668044620759818507437072058934286308883397303818631735365565133497251070924815442741649437754010842612017051355712198428953278933612707093314240261414871553435502763774479186476313428491673994148495068511463839149634913806415286648113178819606374520061442156360925956617524570941524035638431545001124895591594690332823222205894450298073205203845178008330449046701494883166352268085031689327340255874648025416614724234437973203813774207118604846108308352598870137009597148633587438307283442687113589270131980310854616843911163570389825443728703154990978249750434312186043830316893537026817468886072112304510454276820849175144952244007466200821003945602204625945527238381939138903592010153643772253940271409412548260389143229032823704528317309921010531746429965874350538187105233212506173165575548336333915888129671128285645418207498770910957818028171153906064542985648863199033593989048942226633075154773631530527663357496701691213732466352707102881047532204138854",
    "1331319839484486419722435477590297029741581304713023601355671915354362454184662207310249723596533383345844627759599060153560343789051445995946301324072239406231092506521453781154962780521465287841018906294445984903600645555044424449386020780230127946082673304154831216025819639781334761433061845391334199045532443896020265288446986112264494000222597252919077293653461307437300531816774252294482806896067874269060623251231564345332000865990621394525103981261061287553807124670321254542310930572984293735191567983347721582544500432957642459375443014229240806533820551125922115417432564491561436694093764012925209566022134644938653494463939096610400494341000221423258848579401873743336396377983204444039108560814336646215324293137437332381743059869282694181616773448692804049888525441530928189555716028144172004705709232223084942179733953004544414515244343303300520417511313524462006508665658030404403463366751237077093445129863214680755719381118604372238134088300538461415074020724305249009680197401994009874436907419391764826111411131192267041056036033829661014116954257055349054355798202325596923314913139419261514921545069392569364275638376520958681285714444703952173470288053825631632850949151322965500803418025800430648626315730793345836531591168257873613231999831424210781555022924362020450259690",
    "3064061886573072267043012425345434212970444370118221682453503564446218373160798540604559401690301929158410447724402561265110260627482616454064456393682996652671082274470025622246422717256432500533961461008282610094316115041941939638162256484464259438574652957433749194211875057082249605604838371579455836062636396704442960222146222402405645591371192107890624245891831925168915357635290321953486638969574944771848139204991366137057253472629865191232530723654222467065511944769507883234509492168195547048749461343173147934359315724305328574061895924642481216167914761041483528256763364812044016183168496071848092408362795859995453350643911859109894948038679259552082913725568602680906868587401840243630550516528023839266983809819176017306029060629238853849447879007220607109662214186082752575245805650449749479353412103563102192560409253202972780023753370684890719641622652712434427186975044519801373344252402349278464612331000542811267908702293785913400314321653209150838124432669320511089324487902300102191844312282555482432553888201086469933912577914842406306570180335124229058491245264646636622769228238120742766933362541420388605377137805227226274351583939442252650344043352867647023031543509035754491841674232771827443451596312522348553505844021431445591375465130014149204665540322408814784838624",
    "1262830820041164306106289298053569328061133574639354492103945195153278501010477123558396995630948429366554118322466593070261518116167510223702883384394578810457493130387951985597233394055898630005226137975202786304559512654685656927521647092713220060509893605859505549266447534381109330493404582215822103237931328161139220780573866057947793466785838332132635720534500002240665946618114207693213548683464512702651481286462285114009654854668939814114854062844023588882397515147434272645341935318725368123357102940435241799187993402322771230021524163198386542402252903292283868942132420422795034704081884557517925065730466240036574415011130906497661598528264094682668126396478096005615608509432260608692596081374440815132290385034004149752082535580150541428916308363103918637501246185967517814041572577303593351846378862242219201777516881052113300037566608195826743478226024979742771213046287063096408396067114706229121363250107012483682636561411953788559286401461218421253279174312923438343122945035394238101406802134621365202724303603243839661076599250887063746404243130956351179221970047402343373087804696175490355248465057303846533599612291995311045272654683163019117572993840973426972499344989409653488358520269764199808103020402217833212328833754032869280780428263088219414189040540018633559124322",
    "2161146023072500423232353555513264659034532995403948706279441041504547579784462341010455513432753525322403243163292516722753117610350282442128834297545111164501069140756512613079080762463119247151850550514430564365153274120102232913717390951938836008602691193264603455081325448694094575395851699019305627362437321130687027488058931234802595526035449347644092225792126491495613638138135021414141429209131124355005887376074696844144448770140500437634720967752488578552402001662128135114941479308294191558640536216249124507348640777804270205164427264415629203025508134398655317631898087320544435031431055873829307418090601752911618660621339773167651773723803075045663740378399185705602589193325772222464080863800613467356743209660902158802630957311240670380614873338571800022218619061312721706569822791652344318243571348338236413119436353312225111942931063960351412582606106248721702114784582000513535750831006867010936127637489516985626636629579693476715396585381462347973585440889926515195973319316095144765172309551421111754847320587983372800066350133567057851201192877623862042816097201088131081535463849523892749629853128200348329761056972380230407504154229009894114922330649209508811753356987203215552411725093283695559641395110266952231144102311532999554592920142173047132636045239383241417906915",
    "1844843887116732571311344412523687044184299000013340549435182656841279046044556531633265814847743620458856054664418272893218448140364673179950628455504058711049653821381005546543802724901925603741849160592624214168146486013340837016416584855367943026056785994425435019972687825363389982000008765642861183708361211095369710814118182864744516522494318664611398054968535687038162571003208281031503925673444630023758318631664596009930360551368606334314553818941840207900896515282252851005719816237356379349177607872690845701641646219402006619355514552143244214559818141466113021453736353394573741229455290060700810391504485603242127302826742294073570874016613244602757518432218055085360993483172115363759606480869731396115093149962235087533390442249245474327063225367755468923381211402992222137041224416700246155525809335230318641844923857654720552032083593751765457619474161988451957283953890541458494163818130713185683013130910371930563219546510173333748500112263993252864577753304812941335022762000275632950653944577455824735337485243910760821545001681552321157233643942343065438023445563381407664754100531495963550538397641596475402143202194623800229076366249815819483681267805120553462144748223162165880327661651210639658283006464059116348046474372356185064251764221879104765337709870507966102741923",
    "1513006302338255112445603111734605730108484801843647244117182585920558066612372215216484314671533541020670012915539128612718814206332022201416411311243074521578050022643214764245676113605212109834704318448139564440835918534332385920558139331568451610475126238420054012071018816682221622942940913520505377325115033435407543161099845103614918423825936722735373394502637914585465308405545064405692525483381726148765423109065260823684169380742325476340440309220127109240200625162438820043765054165275936341553310793097245877372995096256770010511050355472327904701824409090774351525021262052011154659036734586222753421606153901357471131029120678254496049820212481670707424554516914332756553545015878861422480511860628144336551745532288120595025763946086211128211627267624220320086561582617137812494472168423996590850841965073376990651443485648475504248549362095088429077139753276323895237566332824017420844161362137013081094144693434034415131016263531167633141010102716933201363515343655354577570100365376247390708026321524723360163346192164569213355151261329521345536631583233636362115902209424213395437658391005360816841966148102816463900551471987609996605322310315786210496430144038125201925805496197510744665182630204609345616458186465321982476994923062784316050976738243035685676608269555661780428735",
    "1155012777645511712724414475425976460756220704459727347031882476654328539635655600270049384062342363241075946002223421661867208725653352152100984307163894739732353890637307143547675743450332544900067942301031903186419014630792167555300239772905540546441840715025465029060826645437173420192017815595461370309258150832270929649389923651327677520653243764560042155831115675220151169028846389352633859438441104356238760387540175847828635012243347341081393633036408364451649006291223250131920033492440823319465348031191806790401274446252799062685029436219142305394353624301220054919253180475986322965030470103136452057316484558127318732267209082428924042149946353441200732221365840407512167481394741150859225255917508834222520903029883143755369035021151873086522471641144998351850160981794010631506882171812671260474518721877582575110821866650084983719104272245698337071496645411024926250663379749487137944863509728434152184732733365626383421289238142319461640387921212755869560490605126376200136512429070600204728252909198424766020880048481748946907410215532711655301871209058456286950208746442067692766607530594074898114488069845681329540503240664659803194331759243594632281374234695241966084549646586071302339928341854576046025593260897147244384191916925625422915470640892509213824164764026303300523447",
    "0411643061533570936738997296090029220735335280453131284231255228239536377610808444789370415804641267114480057148181383265827559447566091306823817521530271624554314864450060281477405878147121015203734428104003845307732625118451462341458305142755812189020214024403500580475024713768557244986329637600134451048925469213671233730608212972432927305771711361467048441985361972562663406705673009630830765046448530653942101011054891244219496293916547794251585075343007103296376554726631561006502773328851309309699095371300413422076015277747009294134493448242457164285557925568044209023452149411116943855626875414410309341182352338755480621486846682477103694614535346433859456572086760025958572116302902135672266653736626095600764729607417331280597933462241164641427101501261476936955263362755255934329770375013485307831471733836258361249327646555200162063496067224276920253633656160001395015403139758105484804857662132251543104463066577235359309527533095834619177533000836002094440853320424203488354703531626249142100916434341231536344436598623699218665573152722519313422283682145131000851883925084010924138156067455323586709647462583107538975364010673131539064950933203300435521980362515188424604439074089691715549992370376060960518032231621200330397303122903675431750684742823258293618820010095372824763701",
    "0510644257126283082018740265395964735493612232866335035121453663243570418973651144702558090316241437634785896052469018655038710152396574813523279056943703936036147145777330339468384339762140328915572506260577395140027098448653699340735258431824315251337110268251786193276492927951258155307800784397231590930818567084301331946239591824202130554270093401421166692101204310053704039436443345096552802561227160549958226121381266855050238393438109473452543054303299531862243806681523934279420251568856421753987312585124719708617374677426725542311254202912353833502230973190194998126029620613984658927097856063923964063440152864288488025371249968061654319433219411316471548519620004055753729441255790746599358024190408216137352591657896365543473755476206036062604032390800252153402286351915816835194212793345882130496358700655075612590860670644434237249749361485235829492649504551102611118444396212046125251524522710466301261415796256456200356710185214680763963296883563417821633984803632433336321072927089514392908723758032436176560414292994664125816519912641434695077005870731011567161509824543323446152613983419803340219997118374501110494042340100946470355090840041585478884967264106008751082408619226463518700593120983715301782250981015439076443435177120197119923708713820120615411963785025912886557360",
    "2886729124495402698832697571131555911983644592184162307411065535525237651891871652259549314658001027203265777625194056686082451181597310984120027613351663336503007285070049133314381958604952626395555137966502504300865126076164993302377577091477320342334703114501042550395180343219059712438464028341680046201793220430923208092307242279318233403842168537102488623853906059556660182341224576236158328950007230641224082446354318940096649041097030783441516183164725416965249858895257331861219798151535866664466305916097059915645373019165205606240036928101524093779565100494450963357169139836048635153058790641227749489316387647985014873300363682108683002041839544805926150524042733741518392512860346262077040311513115561135702151648505341331977224033015352102456204408362626854106126025460918491019620047224803496424774920546542854052137210518440165940387505035036009676595110757252743602400187021115024544547637119164632037415021405842810820872336216334748509283823775040966589494381413561072702240716398556952645949336398515891107048169854883601542082812050829492627143780237991637313321053248541114164927738482453460014061254591284961299425001872401730537992892918506285771705118673344741240851664461585880603257038466126217600529322910639387489835195823479341383450652165565182591821475063315590035652",
    "2157511161568300554639967296371023320335519902507436914046545561712037169892346617643650405436122842538642864458224033083491828322499172792815443081724301012046043892587520647274814470620657172400446424708582610688601185615292146436205556411774731618453214439505609190261270215160286555728828907568653205020418080740766864539224721180847083552131765529884017581509910825596995106939182423951391335467521065380255831481383571541742123981091815498383052904651004453582880035576471963132819750070674581939838205203074219856346772978307550255161770333676172784868105427395893281758847082911729917181325483342116108033541862750367378282398210204282880044109579150091393357888391624105762928015333932014193226123695204293538413742314787415845709026817202055080109225442565564818523583631673718645185253775628763166456390738231560760329963138572254104356092628723952152872208935819945412249241937336800221452782153766119995007118774077130394728014386594480439353148150262848718500473243011260432842057258675324686466616293267644620818194223770851738749271580757114120303486486742282170865528002559555001812050007119742817715848403444732327732503385262707584527492974265013407505979931556193872537915662563420234300822172650321128105486470803360864015723133649009146045814920802235010910964005127151284862298",
    "2843333146454355380402335607532455808740064184012563051103471084342778044925481904282421563002254127586945770223625643620406828103487480755859303475052160248887575744951208506045423519733651084301314540775232622829903026573863355433619632141647531122038553539808633543003142848625374292140445992298390721117741380945168510524517082687835532505091025954629504114636121254415014667052175583061692218623435135519300158062041109452739182196062356621534152791945767613153468513197614362266007827306263513624941005625678015501031303924349051477564921038709002263473360896448254627444817352392830163028421363119621025370155869802361315185384927715240885626511120199960110764830230541237009587343723339345640255636380936616297334703617276022904649018577045584956501011542096248463590337910749716504579566046860149153516331723490386850707605599134066455724175309451391842213078265218742177056564372063104568253952045502216136444403085474881085916054640574894736482546480143205002430362254356941249594791210160614475786417690537476326730426107085963315340153945840033215089475944433202291470909621943562414434321038109566251114839649681874722379264625516153997268364880119575620755734122427042426064364903088171519702556269553145444180153611388602581483712139829272345410761405020602510826318502107022160662552",
    "2956022842206714547216196317945676500034613615394421204337894439444739064390521055711516380015020446365641222859007429290198823026226440414611292618686107458760309802817728637286803386653035480393782512474578444047438302361642628214985292032073312285090301988230971051221214122246064370881555859333131076131206353353178310781567243113063575149850045913646501382080230938381674044639570036275502363039238861467708148475533541540482610402643614598279062868509968040200063160767463854462919409440875835133287099290246717321274184191341873189955650812916323445505932401514040972814706088380941007449506275415839742410880989233636453044270713670184212837061277009584972722000424226177930821219351703737449206173154531016281541629760416197012940058823470263650259625132075588916007512160963215997047064510654352591981472904240056513731460373511203154009545360432954648429004091151821539019550929363989400635167342015534473523915424250501693938405391611490451899151902003243502233776369849891498370569844564390571843609628133532834948486395240687652941102960262632984250075620432100554060338801114652114228640217643136090821620599261610145941212072066901442641655921560612441894005611018602464016757296424430925712166123925931921565265841137401193584522404507771420573393149345402951787506181062505272239287",
    "2517857153615332486546173238335733635266106196222459356365631143919318123494331034720226224708147294593025760650849047202724802863409730286315777147856455852750350622472114600112500669563436506954306423395035064301325735115201625611778283810723107548057723149808606502051375023244241925241807877489951705521841493704156456228078781262742905359255092949692455941153045358608482457858705123970355146899365083222861504454511558439265036371367452181333404295952354581106411062878325053259440655491016414846787032172964233850431854699811994214564448321234648650276516392090950163148064040951616355890526041256616876450492764903135264772939702656052913155651353337243064425425047652643857521042342106848202324300597146280467063722418924084990583236295256292097639408646983699556739634423371509940527262178102309260345158204366131615303323904476545925464862218813129442102570520405206980295425499745130318340653300452127324175221384281990144549001212321557409558491763952907442271601682149948062714666756377611875130558783287792909925132457613807441596011851090947190326343581821759317746261517094423056178734207227320072329102604580208352386362924161334685513573352036719245590861720375483241629464082339314700405327370324508424964570101230453689410600757714460586762508033857101193316220349304095477464435",
    "1325505671402180844162027268596262138190337253936831339488523197459433566784679217598551834794747199327482959356253423892951425802535472320547917201732203806803151192928307516235432873845206232384990423803046484522145766026394657909601321873501736370277383811616956056203339235267464402583852845170545324530737567092643303454479134199838953131975433554793184654509444512113085174143725473536063106307154145698010475418865686360881031305144304795248935169304376034561939361551044232152540601010344346134130393152458049827323294380725887454984207128031432364868554409171124222239800097053532362905187075273908117324543775525420424244118130248510056331312335060420644543646580753714106332401885963743441440856166009813209895254861650252611252538466242253335955316566901561454248120870734313272436830551046776466984455046515179511141859314608010582822786238775198722601263912809822744140045292011223586174330437813212881081606382610024683916265014141087360079626840046838283315743175865000070771759704206042570448939483318875701004907165550886443458423456344655890402043837106976003293929065361623316382324404350762810701571238990579226147488092506433713111365919852557635631248313330594681770451076344524858206257222380612537379618112153702940258606137021279053525544800280507254150446908506355826402748",
    "2067145472160155062815072054604444208458387873478251753307845615508146543391180107848400266252823170347043422248152225320840664815010622085231388227400499419439299805965727188334075224025586317361395714911362553204330283572295770143771594996322144125448480596245993381111015635202052943617634457194391386418399199884307706313490890979602963269325074461243338811577811158585423052207475535730435825662493234331620908001272511151961045066239846323256381007463148351566281511274095072873351033330002725414307572615092911353374622004610783183392225837095210190841849112635273227335928300895515707410171665732553417094122918165194153034540908640041940958463393638693191529229221606206615693547150661005102122255694426506363943219747282562175627237667597283293142900102462209218137391143658325889389970986141341097445578708465468084743212119380212086326162566573898305851226046544835772135385620552610257083928822444224584149811701339711646064433120643362148119072872576836917277032885447868549960134364621464035543059945352832900343678271334309320577576363425650173211323640519053405532736317838486212594221325136774513054689050722556446542652021154856035062624035121481317602106813141310854450306046264420255306753248385251610197110465941206737042341767336056587423224947262561382376646988329732926908083",
    "0743947699132550567146961416605523815781613873642157676547944071621868115731724637082248105070653123570980978025698622175350756589015325706545537599764119261019555103559119181117590729221294364003923137243372694955959493123684632139704453035766654267514643760907372262551033251949125491331045729147666279405927471345291921033452910951910390313612046660427261032649056765080871608204926613071297364592070205222465191162574852442394328225585459431086224793016104578695483625326603412644264358096984098110208382260930838081457301340339823344395934223156483895309400043051555930622243532621253536203556481170600102381942376405045056941661529610398402037528609496562043549601472844101941219296313703452695215556402925232541642803701789203836493753867485880367464294532985719255550007140308649227526804747409575252824987552191522904765905533005891412100899177140010715686233412364845149319045383707635037180503536287463262261036749138052127955835223400601123093121770295249165390645581844193246573309347914156805419048290019485388734244324990227956080267381516740084328774346825818604574078124960513496261713874386593079128502008385975956573585192017649736650724453023231082564882901189051062559450078355633355007527136414319648567576475030823149276844619148852094153883952691535054057501576020262442639116",
    "0876162354544821051960569000416255433186165636139963577366682088749041647373796038684439885573736413213254508153977390734235350911524232978302316249783012461295558976323209729152101341308246154366366822276365461171734168033260362017361140871622104098161350367433305613251867265422139333875847673039965784825010583010880000886621644000550595017521148807483276352373715066448650747520208654935277126431361035859206974539283301851011335354934947232450812102300877503553874237514335563973164289349605075561429100661982639884196602442852838077203862403371346481918529236326462679619532265351160328439173544381941258633805664104093430164427111206048026300232504095774834947039603740139643264057262321645081483305441505860177830232027814156523980923174034620756455474115360080301651321180290437178487344906602718600231519127497628484524232044425066305825599329021882050280253734077948500324665479022388392601360662427475684527932136497295094618887275342444819558130873025156200036112412635101636891556631879143922958956616187585125523883436110360505457242102126115764433686531146980218091690936695422104465362704413315437546677014861360900074164494314045434586201300147813267554103206756131071880542571298983207105625063416437817280586144447435620383611286709801635313980727524400513020131571627010199844355",
    "0580152086637670282430891022950759861113512530425703194353214766608790393152251726660131025503949207454260979131591249133747437061298172775901715441023590702056598652450936112053014531922418247130999027440434932123313855274855059707465261354943421456433341973218297547481586333530115841943616726415212071608333469285991623507324896223702091398543740536713452191780404157039033535052231348255026307795140862398942873188624434764264411533722246584575103144039126255892976362909310464591655894465982777226436082825138913460578394018935618320766064731698555763172033887181232035114336206316368812817322521444446158563200518323782193104625743268235682453236441243933758054692137455441106933518320474145318338683812433779473255514118825224265802106504056872761135829280371405235742084104330421317491086042141041047236226944731252970394734750422405744355388441342163428186594112718506300114542627817630171066366811284419662779529483510744060615825625590369143400538763047942108612263206163885496614840520454533525944837747633494762623274494653838309443021271078441735205953115416549476876219236863153806448518238269725534713749345113023320113185682448828652097585162128306568133892742878519700510562416281633416123792454974658546865079091215604287598095387436178006881124725096315834077532739315814199740996",
    "1830923130058015208628452355104413003068402873433214765108822778146649541904404713198597480041147335567134602118613423842745660503222744592362243142185814819206283224369638376638605142153119026991480660578465954333332386631291984610303340873061411024164314717349071430191615618552227831061453745602572008434820166726092840777111766436614564311342205853571176941055655972648661929028665459720180513453599934689438394535324607560765609043640542123012631160404104308490515863198548044543422548324876434224945220321407019383072400723032040540666006141552598643025544618217623786916716040366327639740100323220645201254472680235063102063837260822504841226815906276773960350661262252290031999248980223703607607890475557609306110066859998199911476254483008484600929294600103858843867050013814800368349810181535816561772379054535212082827833325051656083421910258390570704837509945341951274442515072336850163603389400212188101750452288174032221537290597414890260331549963531717613176941189510752243851332012399246045684847194420813033158087253791730203094219623783918433312963226244937130494926427132481286502004127613591374325372589786171730593599805596158299247052616212862523723821720010456615835421984063910691746929626700863718245585232383949400601680886533211025431187913920039405001512301276085734512146",
    "0906548207350051305842320496615477320488178865781409881234951244224255447125140439155108355572213024532262880337553077563975857794095730402013523530092315358245559303969051359077652011951985502615123029514645335893207064565751333559941447822598015123499572345310456336250049339470306144069333737488334922307144519790597434896483770284720953450023833301730556275069018739243202350940258573306087032576171765771960832262225159518477168852761826301493595729961973528410976308310057716000303990119344857218965134692787436083217002250447894554182884520295100253069615987314591896228769296440935050176475633937840886279243228935877275640944157553085165822060951474353610806127370063251836138364382378008041494804373460511499304071938062191121513434366047200055012217643924012008218098875092660476306854841602923133806356563941544974868110142639215548514944411635240755652052471132213588185235475544249602695874333944321076454034233328491749701336327521859512980607145769227904169740743933510402815867419651492445932720466412894435300690158462842415602368013814818084069113562435536490012174855712410380888343400524910027404329054383988007714624000466618600414655629846490315874129410789499505916833140535583120031806295465225706764170053856860002227015628029199020974485911751436771399420685216674445033691",
    "0041324162419790254759038013131178609334641583937553608228395596963345344753349839170504290009548183416766323223134015234881230651098996171652287488672658905836477022790205957009772262638436433485538817572229443795148842411814828108391241601377649748079512441714031278484811251989119853689439464287765776529328144022487552684162100203742468419905150529862421853681455518065915090858286584380700952576624811526744245461236119321194407402135124276251230957516855474163311636599466731146918521532802810165290398123057627253418595598200214591536184319557032140849161059055524221553343291323793227482287421196904199331886064526824252144639452606086092185105704158083563728855601184813951810101886002656225558311905512344524596406350094342123525514088555044693218530602315058862753023436138153790617481743712773532542565859373194545505253026234240221023618417233593033451364796254023402110272761933000360114544612509337066037555932092314192655342022610646527298172372369954693113631715764570620096188239034288525333531116327035376811763479640350042254083492190505830003482815309851066882487262988241213603701998476490027803242181005481435817396073552630285543795448124603610943862464093457256295504794472831489014591642855388115337097163705235600283344820701564576771554903562338292039617258270683378546916",
    "1343939570090654820729920107816485760373226541668756598614890053621752177635800238243079580512639606637843952751184456070046826496366732761343257540620174701860351253710727598227092511325359289084902117819304505250906728604204619603592523774093061871458952990044710414350170857943388464619213798311694904031994304181797912856355495298428326122526503902120393616354247904444205491358648192370313330127639413678429555599383559342793068294220641357399200059225302342214277744754100943711254063496793014713739019761513052177193103178111415636620526530031099486458115522405272530208047555963569441060624316093352469344244548217584061262409031394107714952835957310844516008954519206504657602213326001346014011182591204259285440745926471281613397801320203622803344600407262899429993301254621658545582153731149793558801646415060009271132904595432123386919562621074211507443210035666248095126075436130410060656085423979376870484306488211452145532631575394258630518154934578204632423510663417305511540533408007423872314209862524642338702354160173290410104327570536501946277616360706457056944334635721214926186305533205781192245963415130054439554126816361636399578875500036063534243164807339338020682540358526052000464805563080034658346349643083029359451692503223134427516132547465621170324455513432313876154223",
    "0871922192106214455830845559490861345441647670585911043319446422058114291265110340382491400316823429380551939244114308123870559897588424606134612144263136145023093773981654753203071933146406382016435860339518104305713086310392052953203526295937822254448196503946360241340616923474588814928343379390322919259110538466287029606112325762249149017690299932352216075374013998575931095615664533305674535703310534126906569113725936524696236000301565167373860731352472014102121263560296332258307706001360931734430437731578846977558496112810481108072724319400035145679953654394625914340831047434347464831002312407940040599772110755748622903469562582253436084447980555726257704941418294293942597130246430126635595450672447677507684976831245186253188940593291591281150019456171005256514034010222632910292852134840178266074957100543269215942216367342912060849398049241503650803155881632446863489435120761412494440094208432568680655435822410780883405049312770448947980402003781551924568661376805560362674903139079002371334336861153502862407867219202849807207524493938209917287896305925561369445004816290649104720032036643171718709186078763300239900495530654811411213986506205085652815621255612326674930518793071635825500862611345458003475251011527921273407973577524272373521441440041079014689420822197905773153020",
    "2658058088426711216059482393453731556624149662542359704081221088500613563915671930629319345205812745401956189551386631661644625709445833686047796598200280116682090102057950929094590151340971480025033718704466930739238419206804932201620192530224215561536943875816408119915893929464268104683054783296804347055243208443851032637150492154347730348815139737754272282363550414246780023252070348795002848587394655209209332515506324553285614312587213458000990698314286493425504137462301621462423825360376067151673014250803504060333571355762311542475485453379095554557918794242894138257098231954839040051080343716014953423942836939930040422506858551579261599727038484415143113209260862294021071572193606625261404253635956464168090827828825235460383005942619995996147786471251247645373138812187922766248720524662584304635260821148618565719823360594285916337353092373287311905421280397907731259054582030304634071112423216384405881704846196272068816129314884997122888528131976854758551412667232005055332771510740326130427846277647563642834695070053751359628345635953429536228714639529653337581142225463627511637342756631766225801071057646069930822101702506654155555931574010398377631189740666216455391802569428766022548847479442657820981000213702935153202361823262938251115344852139142654365650592437396193441404",
    "1596734167327255920908986376246241849790130866326122372396906146854337430220012912678108661547806388270142343636292480221261737481517664301013358374326187235215123572927521593380503080320294569215504044295563725088603662265961785050785456170279658502245000403932105388114885313178348173172602859204406243962246462675777563505062154293347409292794385432544357964267303724195571879744082463892948436996638864975858278610614018635507386643194632515296531075409005443020202747836208081381150164547992718142917261964001861599022871538620543460250960150596191321967341686115942358748579182671828741124082042539448861522373338059720006865253534761210415548601472501292536823610439241274802909410741472041122332172477656352590250645756529240552957531668191992872510714330845189641329061413496027532492285187223271326884403028759162551857014542506405078904685093221850514156042525976240648085464417657189452872931113985297084384256396467501134920647398403262306502089582772162672533543933215602032900237137639505226379633178619086276903109476524523911265551405380133856061211961364640099976266836631074190487059361536565121906004482035313334827367831274314316134835711125125617754405546543648074689909438042852898042921345220003351596403273941621459276191815716133187866335307135262945406162146045773299104010",
    "1596500230383565790649439320501393109406213482824412127217995918309231453742909939404411821549336661506944838732489364186013116947208316311828355016393801338067184341457221365137594238429348098602399855348182593209260480556284585453896099010777109396566221440434253323702628230772344552284161251157566354538877295121122116374031516422122740006733026430967620952522265474549034737544128652856161302100575902851663720140701956122466097642232022853322070012551171084345688617736267002949564115021310742200985135493770314111174931745523790401302124736297157761370130985113512586451827524322149961808376644413407046276140834331879584544963240733325833747814670146550929755264179645025456936268540004512866092572928330395274183234237137123990960942582411241844204963275786276109075449074019414894358212707344455552382032765147604014073426556536715251654353386804768948704466235149403335520532177244939290354715807088023693843156263131351852958678226165653561166431091282912668304843855257366607570187900375127224786651827071863106532115220382875221336175691631847566315061285224543499691936005752237542500748664350002727246526036961145430866135474348741365143831544725194522203680010377309375377556632397015269564665230085759245409531055351354924333780187041120054174792956108564935011128094360541973651361",
    "1020436182439835779102871102355938361971094571049239397598191487846788624464003821843608341192646699180571543628520635560314919954514514468809923054345908328209415042551743392263990583711270087234210735962061072184819322522510032944751226655553917110362160395633544016824978134498507791655020053287446171357690419865377623946171215220624006175321152033167360552297106159229874209433527174843315817675059114543029781146334559659355631093920520405549663419408071237823505929002144683303526610469610809960907533211684227643255302794741031098331456600369587801601625558266594128209072640253359024846319642570139343110360326851565147712013457189297536266713547090685056001722022410922564174159622547841179592755531845780508252497413917649934572312071349482048206391244301406110634195710103924367391445492858730512536049064877634524247511957310434691319083397033026902163136621558849379563192595738806620371778601864056551304200102196310073116825174634699133517135691490854230162001515011985065786317516033253690206808796285800223955210012361268928567195942306403039169625352905614495545020220129631094626631115206754377103657230882998622236615441975928062331953419741258011163510937711234893721756690487504922603181091073095245147177092823703729057783054427313172646092938704608703735723081448833247242463",
    "2533436563460361046445016654542550051990637680129263309430750768716104172544082330098223212385740441593270943941938051284090654543178924379861549595192513057893030151107646423383030903854410593032086931421070421843911659055923025328253532643485214483299104923523679357393308215636250991645447347617095506553435296993551600248528055989503117192984229213550584892249762848584671816663382200655409737426577495801662581239494577334614077474590419929094142432709103114080741803385489414258213162642084279100643502734026206561618885555754761481832367147737158074280837628552572325405329561683141603118001296297522276136066272707218252881952633988486715906755758469815735702661421300248212485394613421308629464893516763401603321563117147598540049247318002890218963698003951953318480411220172541131194582310247457512652138411700250464035429550361316162728472337263454960254572350974632683562761947263737321854370647193445161906124506452131623326167173214841236375272903769739422490270984202747121203581460157381742501853331117084225538724169383930716335068443899011159643435179953263203614670504697069183787108592356000090300810121440832527138378780921859822538871267751274063965137251756227894575006105606523979063857203591980142126367731458918605619633854341765540272206159124211465247624942054673001920708",
    "0303801668115836273909661457844504832157030173307031827406021303040094648163962641878070022623414765545820705812701458606339548976281140916532966122342631155949288873388807925640723972530761325713650917275575681654159543006141602911127310886116010929408860223611869280183860329135586983574762563446475912259384575021133912525113541233919998041303465314745644793325106049163225430101565634571437744618320364154401002402355503505023083773413562730350124759846160030001779648999521486339841238196221586410239526960680149656352114746006599272444190042023387912320115452164373872522068241834602959924103115266745196042670513253577221872499156581537373536526333595385038421570073833107135741213001328400889104662420317352589431458406371497411569819373028324559227601635890274750551079415718147370578714550710853466052989929514123014406720145281060310149707008164760561075508712725922639144263405618547251261885044579539734668246067048021462534855563792214427165631221302408970580846364418947653991410036579232976388431931518640460262149458062386037106412470006656474294061235544613532830756127547489495056733270344901227842778330292167262769211515637929792207825580647607410184667044459259593240927281138321487455580481981546138406452120472531450340236211032576532931259407656528274797025920575793917162348",
    "2683452912482030094841273574626194363353457080890113782348421171200470383365463906942353830246838202246212056462862084912620947168445370527420145084933188637370315000777629253330071644307358413923044433628088884026638560396971728428796396503500545221111193079420865065536166843787425460754255359399311221206264433910011243206643320945602731037194692734363486010564550480410094042662129611465911114222117912153162646208782646756259053922609011788150232208763091116492120015567140235479857686287633012965276603823468160743308092511809780205905715803700013373808032846415230640945301281822174809369540533557636282644930437424593546176258048162628585386748947438740440610455374170609322036482530120331247316824329626729583242503916155631695836158327159540154935301172023488263293342152703613311518850044552988176006264929922599393551300753446006055613938438770226911684345003544425024364321458320968620595790705329048331162232640548384273412467388512870057198638981737744843300834726302032256222267351118071760915556698144825311023649258073032949719498964894724067009871540129057091485257222692136021137948396237542854044825280981868435296422483244643719641145751520838068572498453397174891765253191214112207542548641444710813330420585286048601003153311911417127414647814863302245106232756342424783519272",
    "2340516651168214771914646091794818045076180644264300450050040919556270596141118006124261300766337819349245014310021595501757139200450225366257985492761200554621082252741522979078081936360346180370095750860451401346719485207225363511161589352777600211568021619739315041875963831010218212404016938042832305515064414582042716707230756015212590340610515628205037261306735630432575344323479375462237259710620330296852380380256522030103338130897547354255644296402206562412150765505206956102852556180402377734981155814410618686327834855561820465895674057662267081305154137248281342718559370861587353340264851905747823537645464665369062563101544755060621363025856550405368460570594165293244815032365350155674615985298733167519686539358376622952067412670346910800959193561435337856307211500376715012145972764955309642335736635626319012244818271209980373130327000162715962502174656461254348376560095640766296483824521589435351445152502520103692031942159186190521846566443978239462381514463117017446630350732266373911297950838634925151258243481233304919059566706494362755232981479101438567405971151889030945725243562259024055840607608360769751490152426458622678303950560841670139390634144906570214441815932166874551820278269170846250602486810407033308522005350612297452741992445711527386502334737449070011430715",
    "1334852302600583324946993278173127565345169051852353611326726285631157324114483823037496706221645734173813880019828232431352358611223500718209719093490878737937562005554951553544126174048223013812810240545038980541162144187364354433008188203971210194147914079617377276964189701170314561916313735074923884756522614194132001552304655127457043470504678744361511090186916870180093989126601317146231430964612562013948287401870968529385179826270425836065594296036694067674856945619449413219110739279502440559482541971759963357317362273515822540653880213953024554404403869395275228558372304014682120054415753930308158318351041024169594686019226909461245099202323335804496753274122333519943000540970842929692369205102256316299094829538840063845071014841295262800822689563742688617805373630682000382277410717805940178954483838370034020058550588279120853217380523850712006188021862462248427145180061163635087395094108945607933388217765081652567730979402743047050433095231891863973485423364941712643084198324604437695001010398195525635759245499151396956081635070462143046435002082034587359956298353446570100328812095234480454548379125114891563968458904354837048190690993052802420283013153314314634784233452285151705543577104185743208435452684709834144115611607415596447264133823517411411409545786332446432259268",
    "0771527365499325981452288098915502061391221063954911781040423830423225327231842838798488595613931540542353205343178003534933827464410134443217305471760011015018036172316861122155510995438208313643141935471120913348406103568540906249990053746264635652516000351962401510625997029739576996064103408290794566357127296734077430392611032739809435132212395024414296493269764866646275949360092293053884813156514302462131367201581820008844144650581144308025721780218879380083983846341304375398362238462520072908968022254687928941013212405116157352626075908218095383101813163116923011743618328333397305293375814467843240041661823462721241615273234151400481724243740292523642503562410523412726451531005008709508076616513214476199665182328414474163605834946199493212651738189915026202153015224333217426628076057431010574010908542021224161500117337063343750105576458495541717994350334517037873380883531039182434834800136024248490536825778470601069459022043111494123416071304773356051025995447916629017712554249123133533168736698317685907509670261184686800043463326304725491154170676431799463315005356367228446335520828250814399340667293831438500806592763528936030042304838230252408781778351293080092766656595494713388532496355492517560670593825211224887000642990048761186115829438679443544130936867326546049063904",
    "0014600241505183936838662354164837725433368691203006308517860562451520338472398836779476951902452680367183814056449074931396916753517445859024972183045295148692466170414416842539480509214772522722035250492554021692104274000773228837625592070872240102379091599917260217471575035931390833434412082086923981860612278526011449211300561966310734267796043019476606285582455454570996367129964036850779704129314102463801616509790319731390208382858002336372344975255996476545412355365237333063816388240202517748874365063810145497190371253023023130295365353603255650597258998206402580118414595721431537564454622711037575081464963405553427312346054708570531442912241471823938507134243142368344809548900422018057289741205044347086492262003361415380376629504553294053060270305883811735822567511420546611541993573700507486774362833478547753229302511323685704917557389341092347169542131171347844564514285802464632756119328132437010030021686532880474937258578203601133797427600845507185040242967311395421136093136390422954489529208212434600115342028555633423886212564792319515240183289639376144920182364518190650399747539268486029256805430504284903833619092419838615427222375034012099692928261511544254413009237390140309301325450481271503975245550967004936191063081537208310450489548039480006106207086555015678204065",
    "0345712553177666483846577514453727514401220333356350622498694043448240030665988910394235702644441698445384140730975172390403940527597572491029888050700306854807323414548700119034523438624152122052381228054562546160911627048183464252773624333940359939278415088144930253236118154173560276152035333639573143526999467571525542298024546485324430098991501908319173294680117160392524849352813499991775551991402670560343467483904851646829603851423931448220261939836531076022772022381377633029409897483974792646555631974287305545023524651824724404781642151063188650364832961371614016630052462650424737075381981237515633277941992853829104620288749374089561127557631499714760924027559002060560462123821275520999433570478528261090422501649113630065140946323287621050000106447325907064851398662645548560499120780019350632636097546747248235806628098048754133027784204394192152673033473069500563243143551360492051135961233919049456378546471213080147531351354055581209559269811018838395393440147519241611053025956380369785639907866586574703546018406826200945635306026441449655568923870737038144885017844077076873981407853227875924144125426660153842440502563875850187361890969913973024926046821196213683719420712502176229523674467874015155098455870297338738350732319629102651034192835216060731226751643172703467319336",
    "0406431509582584808828903193044402640188437986428141976353814940606888402985692712742053230469536250308403995051682457532743116532208414317842238395772784206975338914011738713022904306836294429742416341122618511456633243635634117243591240855120463341183731609407930290184801107067308972216600632323193744317572257044009507332340021787922293548143107616024507954121803137585742857714502047700914628397539703229646968010685286065464380240095127598218012717524806470332789017493464996487911172027400230104957606084725620618222545276918673220693491319881505360114719939207890678927722407735200949473222603407643328385665294728199058693173415438070420366124102424994649349468374954433521915538231001028968033543319948704072962301302940372573847553220259284239158732163084241715519168820413700879155780400203752356893898546729297381264249935197141034907882528433048035184230952575304087191184344835610602464852003187167681950453741466290199151141346244373426816295563289621004175705675552543365742026413182218172989741055642212222863898142483327244512068480020357264074705906249715131895837559452639523198654187198505238603325072111669421782138843021562442556575603906653037204983338523221394245219293320744517838442176743692434475529746489416161422014657546807565076389842885282000566464272036240351932981",
    "1265538855257274436343796117691033635225460365171105971583855956751711354060090641321604170565950707596063690249508128754906748586536422031000522617761226059398193664546946656613655109328982220384885948861010986214954492183786219465012037492102652686302714665328939503880980234906563632547625009218821756512445049092759536417143930577355449298166237951014341212493812897531746093354894175721377435253246212706863508580346325736517181034845953394561195231010449434935637808226035682483154582336916529145919622846422904127516323856727165380472521001046411143910857709077384011847687636983467640627244470369504408609952645025288509064970548056450474114711763450063365315513420835125664130421074912802108179771315945181399292034050826443700459427444366396260558933215823431327631035961127249342002494575037945290702274539100604453203239092346284208611681213496325060366008885285210372398556098707548449453705513016277031555153181578151770238437196732110740512414635249749706300396501115907460041917111745381473329856857268583169838996648154146559791040324354900901143291804257761392824544816995320410357225184220665678005587423406013227627511223365450998091586323800688555516508853939198514598810811331804552010105012313073508078557470467509953211282338958231511824638620210429480967962530478582411315105">>
NpWordRow(row) ==
  [p \in 1..Positions(row, 20) |->
     <<Cell(row, p, 20, 0, 5), Cell(row, p, 20, 5, 5),
       Cell(row, p, 20, 10, 5), Cell(row, p, 20, 15, 5)>>]
NpWords == [seed \in TableSeeds(NpWordTable) |-> NpWordRow(RowOf(NpWordTable, seed))]
NpWordAt(seed, p) == NpWords[seed][p]

\* rng.random(): one output x, the value being (x >> 11) / 2^53
NpDoubles ==
  [seed \in DOMAIN NpWords |->
     [p \in DOMAIN NpWords[seed] |->
        <<NpWords[seed][p][3] * 2048 + NpWords[seed][p][4] \div 32,
          (NpWords[seed][p][4] % 32) * (2 ^ 21)
            + NpWords[seed][p][1] * 32 + NpWords[seed][p][2] \div 2048>>]]
NpRandom(st) == NpDoubles[st.seed][st.pos + 1]

\* the next 32-bit draw as <<high limb, low limb>>, and the stream after it
NpNext32(st) ==
  IF st.half # 0
  THEN [word |-> <<NpWordAt(st.seed, st.half)[3], NpWordAt(st.seed, st.half)[4]>>,
        st   |-> [st EXCEPT !.half = 0]]
  ELSE [word |-> <<NpWordAt(st.seed, st.pos + 1)[1], NpWordAt(st.seed, st.pos + 1)[2]>>,
        st   |-> [st EXCEPT !.pos = @ + 1, !.half = st.pos + 1]]

\* Lemire's bounded draw below n (2 <= n < 2^15) from one 32-bit word w:
\* the product w * n is <<value, leftover>> with the leftover in two limbs
LemireProduct(word, n) ==
  [value    |-> (word[1] * n + (word[2] * n) \div 65536) \div 65536,
   leftover |-> <<(word[1] * n + (word[2] * n) \div 65536) % 65536, (word[2] * n) % 65536>>]
\* 2^32 mod n, the rejection threshold
LemireThreshold(n) == ((65536 % n) * (65536 % n)) % n
RECURSIVE NpBounded(_, _)
NpBounded(st, n) ==
  IF LemireProduct(NpNext32(st).word, n).leftover[1] = 0
       /\ LemireProduct(NpNext32(st).word, n).leftover[2] < LemireThreshold(n)
  THEN NpBounded(NpNext32(st).st, n)
  ELSE [value |-> LemireProduct(NpNext32(st).word, n).value, st |-> NpNext32(st).st]

\* rng.choice(list) without p is rng.integers(0, len(list)): the index drawn
\* and the stream afterwards; a list of one element takes no draw
NpChoiceIndex(st, n) ==
  IF n = 1 THEN [value |-> 0, st |-> st] ELSE NpBounded(st, n)

\* A correlation c is kept as its sign and the least t with |c| <= t / 2^53,
\* t as <<hi, lo>> with t = hi * 2^26 + lo: a value u of random() is below
\* |c| exactly when u * 2^53 is below t.
Corr(sign, bound) == [sign |-> sign, bound |-> bound]

\* The correlation generate_interactions draws when self.rng is at output p,
\* before it is clipped, for the scale 0.9: rng.uniform(-0.9, 0.9),
\* rng.normal(scale=0.9) and rng.beta(0.9, 0.9).  An entry is the sign plus
\* one, hi, lo, and the number of outputs the draw took.
UniformCorrelationTable ==
  <<"00000000000000000000200330888354641232901000556176674169128801001108970831855121201001168030121062116901200756835553757148701200997184082971443701200257623405265220701200554445124015487501200105394450196731001201051099780169418501200763076633669853301001201343554779917401200863459816482185301001126819516040266201200554828980246793101000783589781651751601200877410894479666701200100166952734640801000483879866680536601000186781416235690701001139541515006776601000907701206708865901200412214782058336101200355597951960021701200278761093452570501000281025615961091901201201218981725884501201161659280555531301200448254423288993301200363497436650106701200455272054343738701000268356852586375301000881577323108969001200535097911602648901200061253991367734201000458440275352823301000034220624831560101200940971096562802101201048614021453599701000343555300638285401200172810283064134101000430349140742750301200227821242997903501000391593364591095001000261839724787968601200942871261885489701000659165181452263401200297610174170293701001004985275643984801200803641350771510701200693606283884245301000629662341180772401200909555443738181701001066463915254888501000395927922850391601000844896514690790601000119976071898326601200715895463735234901000650746632082552501001082280294659742401000230595032427208201000728368093608368301000988707533585344701200194076544010113301",
    "00000000000000000001200028560086008705201201088283846450693101000859681586446071801201083900770226764501000454599986616805801000185237094495403601200791702954591023101000219367540741849601200119814335024543801001141378962568103101200612467161585039901200092151156104430301000411354395982843301200696820413190779701000475465371127627601000112345334818425401000884125653280274901000234071184678754401000716428146201914201000574231741068695301200604860793740413101000530514674464493401000035777405222571101201161422183357642701201115326432463814901200543074311544717501200099600745311595901000539012801622173301000819837293291149801201135301782176977101200038820401878631101000928037603580395701200298341256409793701200668444021136672501200273006832569668101201008157494737680501001112306363278024101200069069344884969401000098241214955618201001057328011748491601200341437422521386901200851932410794008501200224537980794132501000579585156113618101200821126256547381301200022941281058397401200026306662687002701200611300511796356301000850591876606566901200772192294609777301200442806335185046501200693602983893800701000745030170802785001200730487352180934301000745736422675044201001010935023845530901200858199632306028101200872831700252020701200909683163085334501000067863843783477001000545880813038489401001190826265231348701200352049893671865301200531283280515069901",
    "00000000000000000002000575925796059168001000486829094194985601200759143966489608501000985898070962113501200241834772013850901200552183742110519301000754005756168322801001074729761009902501000543655802054201101200380345425528602901200150428802841696501000845421262208660301000162758556386138001200409008575289369901000186545981991992501200321762733060903501201129287445050552701200442269800998706901000261825634134680201000755572491033559201000372146570545390301200026734494664804401200945130284078211301200665740192008788101000439343101141292901201024873703026896501000070279362390163001200468105685667537501000948955364978508601000955390771329907301000720167491525869901200928799310798672301200434409943300927901200843726704047227501200348946341398613701000225786004610181801200040051573957007201200225751976503826701200874847755127333701000149337221387577501200947620373371195901200274730922640869101200795697754265135701000004696412726329601200465108231714244501000388901671774341301200055151815868777601000685581330607671401000964667794054683201001114695094718178201200487893595398041701000105260093598154101200960893522869272301200809775505070759901000277600856543346501201144369585966021301200222414370883743701200642352575534852901000224210921548935101000734028912715126401000792960176466408801000770179965559844001200250785731513256101000935847683757091201",
    "00000000000000000003001001038091916648501000635844523413535801200727854734053051701200198496831712244501000980552364682748001000161559901762034901000050610366056950401000822043254346008001200566719420974032701000933337145020825401000262783891716764801200040442924697218701000167597090512500901200209698324655551901200574596852665710501201102304775025223701000521352530751795401200358878033644006901200474041973265402501000500769901559303501001204359630526433701201143841721874528901000487046334467145501000449394770870175701200946342255594694901200205746772305356301000069313525360233201200660215145566390301001134646051582497801200500010925674462701000303816723452863601000988466743888841001200387755176101765501201042381766278114301000707402450572461501200314287395975767101000487621643471570801200584064581274472101200536732202836716101000679560776338267201200796980001153035701200380874985393207101200441627372476421701200773277116418376901000172562083388046101200625011463968347501200914377505785220701000960762895307420001200845012005676604501000256262982352688401000049081994902316001000854427066271690801200479381995029525701000502562833808744001200896642161495621301000542677332670290801200149327280197852701000242422451569334601200272780195710988501000732895054052361801000772399435277431801200596394721149072101200609351373298079701200161813124319196501",
    "00000000000000000004201070387706439849701200027366450836032301201150566264549307301001012666255086324601200259363003652471501000298398420270609301200729368892333824901000786314464562223001200897840755791654101200106158866416315701200971719093357281501000055195235513625401000167915370290327101200698071893324195701201169674481202930901000314731944220781501201132903875016137501201036493044243017501000778668636320629201200262976700426832901200494936651708565301201069777865187274301200400214915614902901000885686195376589301000005151705926925101000015413963376994701200000546453468693701201107897703870385701000362539101721562801000667346562398819801200053360410397772101200341057531433742701201060847116085573701200198143536451211101000560895745171048901201038300894570474701000019991042003119501200424720665430871301000057888052640821601000683753360658121401200465190162235064501200653821352836082901000747029954913908601000096839670379457501000333843634474868201000795490116427199701000673191845538020601201117380490513371701200928251810425737901000284373423887606601200578547982004400501001106568166185012101201002744621160248501200089801766415668601200773741103298480501000541315042700343101000299274844208640701000367114081646651901201141376015845876701000170419214325410701000000742312696859801201101608205404759901200974087923050143501000253646112672108601",
    "00000000000000000005200736862390169328501200743960034580342701200037025313826030001000517486535298576001001077667335250609601000281771346060714201000221121331042676401001098578344102887301001090164864823066401201205969111775840301200368111445063315101000641401873827204901000157161450900092001201145595482112634701200960756930444574901200831634336676459501000259941624653933901000016855821566477401200426867180377185301001061065114153773001200134315720655649101000552154433224094301200917206521688360901001052822664123750701200432888085845398501200894103881975526501000658776382933098601200955370954190111501200899194141088648101001163223451394261501200501292503439466901001205061212351377501200008127065802431001000153007275745509201000716917141535881501000422924406217979401200739791465480055101000443436905730301401000847894390542362201200479588906565307301000124313286701830901200722213624803565701000638970842340502201000435385694339538401200724484673955817701200017076051244699701200015425644639531301000637333643325784101001172841073065508401201046633894606362501001000611382481292901200833315246148319301000319189444610399501201089635034438556501000242980431296250901201054408713350909701200135677473079420301000627812023226602201200583255223180810501200421311442507216301200445024891111543301000087397416425014701000671894741983442401200340499980218212501",
    "00000000000000000006200092201983900929601000378644896557380801000316322954508237001000303205661093891401201177627662644476501200320728413467807701200421152512677760701000410794534370410701200434666513189791901000910868241507122601001082985911486561801200846033963228498701001186468003665133501201156663696616240301200790012854792953301200689046603561298101001091793734807418801000706803063926424301200845247061339451901000163087072779467501200307952214147771701000912535165791257201000757786076668741801000006600501209079501200626850256573019901200096291780944728301000949745925602267601200884675941813907501000870554922896421801000145781974297826101200209821301387020101000436920171428360101000197974504116675701200934874903998123501000110804433174002501200094817845958033101201136663730591730301000541206620206855201200953781154690807501000333745883283211101000454093694569574901200921163846051852301001049724704593713001200885809112418621301200791860050691016701200953599123521301701001063590825377702201000631024552666870001200664748873704622501000152565076193528601001195123390381801901200465353421510176301200724219281432495701201144239540832877101000843967202331642001000599256713170023601200824699573794127501000986156134229742001000545344044251149101000116537395681898601000197277113237571801200103241714288867501200890711352190902901200317121642296066901",
    "00000000000000000007200302220525096253101200959636410090497101200666034323867342501000663877196270364801000482782086647980901200902474903421109301001195239001417104101200776061871824441701200717695705460269301000077466556707877101000475857721956719001000535305794484783501000592215244132428201000132691201261892601200010988223829539501200129245273281744501201197088600527854101200707047521101800501200295175133032585301201181288161261195101000687791153137504101000820900235846617201200271886576657075301001101799213689627801001121758883271438601200035970183576651401000081643506051022601201007843591899013701200312200174672923101200034107091424913201000007553524806822201000609983522247543701001179466140254205801000743131534493159401200463934066321703701000723309933441989001000315189716438727101001198937923548333901200797368613798272701000834794073650168401000561461276635212001200918851714474653701200023653803090199001200838686911445263501200337545371861067301200584099050351441701000986913571205375101200099400142734701501200018777092790935301200897125892831848301000335174810160466201200237204762465798501001064812374908424501000271472475622825001000427529871200201501000845089154780212201200764247265596637901000291248294839850201201156616156676428701200217412650231952901200253807410417558701200333388573901179901200426289513310327901000843667893917023501",
    "00000000000000000008000418020981657759101201177221433192307901000437979945805575501200697110884353001501200893640046113515501000263130294427720101000150072366326571501000307428354047595501000949568313382231301000050817760759844001000624872292616263501000586717432363908001000761663053175642001000739598483163333001200758182262477206901000186063970786806701000589676313008430801200219613934152789101200251913431386178701200354797112114235901200993803735420974501000845073734411413001000310718292292649001000520339114325145401001167415470795261401000769339924240583901000254472184491011301000257752692479433501200282005270579500901000115320203292851001200259302210155021101000669064671276324301000884257480399777101000412423054065335001000975769350928676301000324119912112816501000096203571187505201200529058845591329301200886702392329031701001082728805916761301201101890822572969901200531747235365645101201180837473063722501000921003663038934101000301937325363915701200005445510283286101200597271883253075701000456533935628230601000121027214319077601000540780894230426101000122812853073055101200024096394182472201200157102241322632501200493308246341976701000623742024493087701200315254445258373901000990173674576509501200268268402159256101000098961855556414201000882162661237519501000587805781618616101001051231096407447301000308459806507487601000232460503241650801",
    "05280136735386738038000435777011605548101000301040280227429501200546072221858792101200398637352020656701000160516513448170601000648650574205924701200772294692406344301200959283304211033701200080252210620599101200425277092935571501200114753405336628601200432678830441628101200008934522574526201200734749965399114501200970448296599628501201175554666602553501200698033351862454301200972653682583269701000978712403956877101000574498750132635801000778463556668573601200933752412280108301200537765912656852701200784911330421810301200953728635438848501000538176922799227401001166627852285125901000310516773607801801000370368172628645501000337275421343436601200627325664546011101200380240671474237301200209587006691612301200346336256678833901000565854550806020501200745149043403116901000521624361724116801200191135513824272301200702923763993239901001005261103180872601000737740364744491801000919180262946200801000557537702420607901000110328533416340401000212983470348380601001188033013897933601000268777521397938901200597126312430778501000290158994293601501000419839000551921501000585901223102919401200556544046464217901200090443565424322701001035627630957270601000878516801330556301200376473972011048301000375679493119340601000142097165668201001200862412781779840501200442773974472684101201133486674071643501001007683684877219001200436984596250771101200253907766054046501",
    "02413141351714541017201079124322692339901200094732243954605201201158034982075452901200291835462016943701200097108435990896401000424392355474452801000371440316193470601000610840675881285301000012406566102967601000130646080572870101000919295473719155501000286965361020474901000140734702949406401000066985554854854201000754227675747343401200016010151955707201200789727783113469101000862997555936873401000997296971625143201000381112086690136801000588027355543341701000049054290728596701000441700046455876301200533779746053085501001172432000173477801200803348496589552901000153160104132068501000270225263276683001200916390454023445101200823175735620467701000094663635103486001200322071751753732901200036467912666677001001073142041721545601200160705515025048301000727713012433009801000714163264655421601200871072390240515901000905880094551802101200277845175138011901200751149721188978101000331948075834290201200266682733006104301200147193025628850501201101445084837339101201081102175778574101200078037356529591001200138556172209856701200934195844010879101200539221603213640701200369733073837016701200150883135285953101200841130341427266301200180573121768671301000287434030769524101200106377805761677001000122585543146246401200290572982041270101000064830810118862001201028264923433383701000324588772387409901001190005221242770001000901001606328389501200963458823556490501",
    "25875099980988603383000020783910049888701000592827180252600501000704430840453813601000408263654536961501200529615954025312901200208161515183670901000001152016449950601200566387564277464301201206685204529785701201080234532484096901200386881585226276901200698175625575192301200301895520389062501200531160366704860501000680737953388918201200824707833612352101000352739515821869501000403526384550053501200916217431515304301200365157474781080101200031985050549232401200715942324548484901000560147542906228001200576203712203346901000638814470297456901000935201321408775301000878094525628706801000930684964806040901200647351850138377501000765325266673576701200407138472490107901000061861165617194001001051754456454042901200690868051047185301001004293443822027301001189934795826039601001061159473186216601200614662431384050701200160933241259222301000958993413017357201200490312320711748501000844523733987839201200349183473261758301200914461350808917901000233157020000906101200972709355842761901200701977052540794701000689792500098969001000646683694910619001200876124195864860101000076948704533993901200252763546463981501000964071641242081001200998354335424263301200029966961461721401200203028683626777101001057631965352164001000077621373134889101001175524023202672301200630333013623070301200029888064962277401200683887442055234101000497979835791312001201199903925807355301",
    "03164327204265942064200604472534364823101001190891970772261401200292763733380117701000788412314565955401200737312143463264501200504619012070436301000139216126442068301000876106296471345001000382020711547114401200702748594164264701000845185993268733201000005165074481105301000583544153186058401000291091423111858101200344058674614993301200804322640527909301000134516055126782201000435034770964892501201110935685511694301200029693234284422401000190668140373375101200517611354728910501001111894623917404601200692696182048298701200143605521861150101200856885525285576501200713689972143179901000466090141562755601200997907322004159301200122684254304998301000576133166021888101000080007744411415001201141557983861038501200318103702004351701000787568470126188001200234179093306329501201151710274719727701000442930253986749201200227533900327218501000598259431929371801201190444692558792301200241491356367401701001003271794835502601000290065280972916701000875514555344608801000259604666612244801200096930572013374401000550115111224745001200435682412095568301000116623090407500901000485372942356370201200108736024835140201201037022863842485901000814733673608511001200144350992350627501001203130334539401601200217447313269670701200128349496363879001200137216993092594101201032147720623966701000079042262927038001200415518575402174101200244997520665461501200198041073513176301",
    "25605584113064061886200154339613465194901000513162346449578301000024307190704607701200077792605907982201000009857134278886901001122523286433427801200393556842368535301200464174674619516701200313617621244837301200820777756211438101001046375392029126101200427150581773575501000325596735311138001200732836791674415501000719997646358847601200261923221197118301200682006472072579101000177070926273327501001150930135655714801000268598984217576401201088797652951099101000029200102316956901001169013260273863101000730720480630441801001027536351304911101201072637115662796901000831843126321366201200233302792670146901200833705061612116901200262262235826288901200912339641307733901200430176603053965901000708083066430191401000877258920096180601000087753015513896301000496987235307126701201114073892190897501200699158332569104501201149590273135174701000474807202416117501200900619880943328501201101230443703195101000314425000921799901000718282876041786301000391206883999569201000257017491597413601201009833760853347301201008151870931053901000712966924938997101000958652380520977201201026388313883251101000939707531860782801200266895971743908901200676589753165351701200308331911189530901200948422141200470101000118334664767179701000217713341385526901000933133304640349201200635797886047646301000999754670262786401000143145366666263801000568781843002495701000481710265303139901",
    "07250042322348254248000234050101362897801200655158455192611301200636729432064908901000012901565130891801200209905383545718101200928282772550235301000398799026373841101200561636053532497901000464758665499011101200090081844072204001000658869584282124901200358879776167283501200129011445699732801000496751155013599301000484937035312103601200973418980534960301000226110090006717501000226600072664752001000333027266265814101200185910986117353901200820210960487764901200827425521885027701201089772815310713701000994188360353822601200240779651041585901200010900371775047101201081318802582894501001023123185063059001000165890656673312801001129521004058020301000315262781794413601000927836071239100001201146737682387720901200607119394335388901000000246470044007101200915778645924132901000088950523632947301201061126385351259501000194565382721748501200769273165038072101000745878571816643801000836742473288497401000322540185467277101000483602241468248801201032743724387944901200486013920924752101200551670770760956101000922123121576774501000350929931996945901200169449254813373701200597884040354948701200305058045583893501000899523472747258901200522484913758859501001184992694131589901000250927183133814701000591550056098042801000308965505414556601200450812693282852701200546552071849819901000456195305248730101200873770821339395701200859623123811006901000492986241819937901",
    "11673257132161146023000858914255480890701201156422352061555501000019158423000205301200609543701271712301000607530124840492801200135849244562179301000190419624547755801200148640082929144501000974575554883152201201023070094769859101001036025135440950601200741992453305222701001156246451054229501000832935752257290501000668611475216083701200438245231892279901000525692915888267001000069285210007233601200770015003587155501000293154484998406101001167984282253801601000397525086570726501000946465522523687801200832235751818608701201179471232548380501200579763981415667501201132594082097584301000036115691002466101200346099532732305901200896762234705177701200635659953854323101200002040016212785401000938085800079908601001042413921543325501200718852782256376501000264694235942491701200353031022704927101000945527575083539201200999715584797801101200114521131187742101000706999460633654001201065981422756477701200798822161330856501200626048875416041101000039756360125740901201030466312167735901000439372162641990001200510644744395668501200497357831994051301200226193940514795901000271833606282604901001064497411078244301000164064230652181101200377078033371707701200721214330710530901200573917533077700901000735036402764627901000872132852160047601000984385712248697401001084110934959446801000074323875212630301201127660833970863101200511208313746458701000395418271745012801",
    "13313198394844864197001098456741674321001000337912280713743101200466355823381883101200117872984026696601200989101365190429501001018297405876663801000382423630446335201200774631945757539101000146860442985569401200599703913265871301200612607120906909301000903186275649054301200937400166229797101201071916540402538101200428430405358917301201045278132976531101200742850811048704901200404106156501897101200444583716136418101201026860851171558901001204755550497094901200259704362010670701000298506600966830001200904298071645757701200026148714145350801200916980974046562901000320237675977938101000428128690217169501200144733335693856701200878628582328297301200437634533949835901200303476902280970701200273515071571831301000026664762516653401200142970702579113501200017335883183298601200333554904916639101200631141234284979701200840643700130125301200896698061219120701200043684093656028701200057600132477257601200091310141711441801000087123800629753901000923755594713409301000929367401295993701200197817190655519901000935088146554040201001135188892905778601000934443496369653201000724327982490256401200203818511830318301200832429040864284501200992544981885868901000649494694579993201201161509954276217901000154693204028410301001101760953626279501200603961076068074701001112848006310154101000915491654585304201200925505213116380501000430931411981960801001041964245488322101",
    "30640618865730722670200795311231338271701000408648792847827801200167661962596066701000584846273079616301000308372652005907501200571170254153112501000103263300006217401000263416281881988501200637216522085895501001173187733213750001200198858842037424901200910446842522067301000516727442070528301200206581584212249301200254460316585671901000322335640114493501000917067475363623401000585259590667262601200077362591587393401200566648073476897501000273552950844056301000941181145077093101200442433431778980701000587912732581932801000038201003158531101001011515865916716401200566007684429339101200092708023566296001000611379961425646401200297434475970107101000970585583219583201200217917702537940301200888142565530628301000529563681386498601000329143635303268001001144150915736465601200211110194333813901000851767534274031001000301810645353885401200049878994438919301000866845541912459301200158542710285959101000208041050432122001000477994485009351801000181418662313587001000740556000576410001001196366161969872701000749245783296423801200446461195319081101000755164655477618201000466661844431674701200577146330950312901000314778403656164901201138891991917222901000187950766464348501001009734071533635701200088127116424772701200282592295402371101200395958233686186301000349865943012825801000278111565747571701000048737804699854501000657922425431404201200555930844258789901",
    "12628308200411643061200107842982930296901200800839381838547901200638966394116059101200867842663700855901000379739565031743601000590449426486107401200479975161400729701200708449081752049501201114501843425113301201116164802567547901000193389005788526301200671719224602244101201168866185250089101001039036562705266201200001775880121147601201025251585194805701000023409742918800701000320757075589580201000023307525138541601200689852143874661501201206105750509110301200289775802200652501000649556113897050201000032999945509937501001047503911249583101000368516466183170901200216995014365983701200218295442485761901200071373310074392101000965649854854537401200639349734676574701000166030126592005101200554505203844672301000374607075782119201200296652046592856101000655909435304587201000681200681640551701200174491156668377101001054701404144175901201143556290775673501000585655434445530801201034104836355710101200627781113396163301201118034362765127901000363323913677065601200149614675363724101200977582133005527101000178803002572229901000122294841794374101001129256822882752201201015845981474082701000880940012919754201200869373792329996901200057856983385033301001076991361608728201200030668423598166401000202836246302354901000104302071440560401200450537984817728301000213492662567309501000390371075489808001200003739055474232401000399102963246887401200104080752330662401",
    "21611460230725004232000004464200736388701200587554150642551301200929366540353592101200057501082794747001201125265801192338101200083326374730371401200676232632724611901000742989471134580001000296855381927403201200401220876079103901000702274071986029601201013803573970437701000719336703402756401200697873466513705101000024142053450735701000752761420051384001200548394051225744901200619077614569874101200318742572945955301000990920026677300601200446386964506786501000851197096372819601001146684374154658501000071455715619346801201095722455161220701001050538730973588001201111540344575145501200752338453150640301200083447475796493201200333290806084529901000978901144854221201000330481535943229901200263609693010587101200919916891357091501000711491994902700201000622544431954216901001067646800970120901000388880375089805301200892640595947638901200108591670385390201200132175001730010401000972175430628297801201095573422337401701001189018182660180401001167632731462083301200866250874116643901000640368476628640401200950211466585403901200015676252459595201000855847800294101101200959588891443257901200107011866166010101000328308373868700801000724737601913725401000194330213449041901000110846842233023801200650562794247519901000348779485269775701200892820644697095301000864071371567617601001109540153724939301200008546776584174801001034204691509520201000685261003975667201",
    "18448438871167325713200151240981071978101200286863262101603901001038212063663781401200579121111692157701201166760950306245901200136377822156706901200288245831004652901001003481215830968501201017677983638226501200328594980600673501000602767230118144601000998612040697438201000217114692076475501000884810430530344601000429767170896508101000151891502454292901201173882741852850501001067272063824229301000653547413295019801200941910730843309501200121179664542920401200199863276076284301000644589680677166701000332956625604380501000215997331855830301001133975526047695101000307678155806044101000094120426270846001200311931912929854301200235291276378838501000165901072414021301000595524160796483801000404111424664616001000428139493381606701000050570932460850501000885269885858358101200387181291627476501000346030474318019601001055981296580476901200933600614615152701000328458273842993601200980850375652165301000474926546504825901200320375954525634701000523451850660878801001000330506113411201200579950762055468501200921876635263177701000189775714832792601200435352614307225501000308805445431496901000635707776041527701200379613244580542301200294865012756991701200100918364239309901001128948624202230001000926430891663049001000740594876619764801200569742241325427701201192664590170935501200288396265536647101200863247901410890901000821742262205247501201041763355215849501",
    "15130063023382551124200489902631437079301200533649853886347901000962395102787063201200514161073317262301000635122621120556201200016011356112515601000074563732841482701000663685634710749901000803055775226280601200429117162706730101000450101601495774701200543557904787964901000832379734162679001200300286555580250901001084692781577702201200673439942513532301000369835505669843301200950310051433758101200890537981499946101201203800053323661101000583552942758817901001093964741572920001000280362900188736001000598674831549369801000066181935255190301200884810316380473501200000837453835375701200396191481692489101200806991890192885501200346261302738806501000828580494438141801000462837286606238001200697601842347615501200959235830241863901000170440203120610901000763388304219589601000792053362190195801000467477655969531101200614866852331786301000897564931497556601200395107963195102701200126877644511350101000000170875914256201000322573191037565201001159735283577120401200419640355961688901200013750840235680301200132113766699610601001170948183707687801000237632691535224401000499555224000756801000717840663572118401200032018320770473601000421288066035374601000906830792431908501201147681065579846101201023505091079176501201162457282355853301001005343895338535401201115235653608052901201175421003534309301201106527601491098701001076396866067422701000551616731672030401",
    "11550127776455117127200995214716348198701000199837950376189501200781364291988150701200289590546167182501001125987160951657501201200561992498304701200227805003528885701000944609192186912101200800760190288881101000033314360175776501200830633133760723101200420843444110005901000903216166354492601000551193894849388801000651927064073431001200138071245749205901201171982656297751901000396392013942317501000237002083944261501200220910885035583901201132953930387617501200131330045305849501000976035566626790901200607375893404985301000768610580307309201200738426310063363101000683354485792044301001187710383843484201000361376075306696201000996655491797609101000372173833272287201200633269672260327301200140675314221523901200539828160195915101000882290456077820901000678009350870731601000070139551182398101200703447902466452901200660615094381525301200457826321289335301000401854760335524001000204341961768146201200786765506169444901200616336973583712301200392503294935815701201145228996270285901201064359225841424101200858234185228850301201192787934094573101200742488983785048701001029233041361255201200831621531570422101200946978572145200901000958411572588443401200597684181050010901000118968683147438301000491571542981612701000701354945159545401200622223555801684501200052262025443725001000877226031915929001000263295762001686101200669213702034774701200008749955028718301",
    "04116430615335709367001197183600152862101000054693165301416601200184066496508717701200931871403403715901200568206390317598701200878881973523340301001107823114140999701201014266084040122901001151905263687949201200748689325236986901200320365322836469101001133434770344581501200644353600355709301000115387424166930701200521756841934103301000112195492867551901201057962660679441501200866249433260086701000901693713742197101200344052332649107101200621585933175806701200663023231239985501200809495234924893301200004320451945411401000728572544054551001200524996765957754901200477339175585590101200343659400165880701200408746426419460101200049779631444332401000659839340699514001000672121823290345601000888127341329586201000138109341340346001000245959676053976301200013274402411520501200503061385771167501200154364381630904301200007706683765805801000665413030761184501000188786175219892701000960135684310796401201062863631920213501200934050435377582301000280665032236779201200767698156361119901000500988641538428901200417208563571369101200525956475256464301000602117381072841801200998814022772849301000204326285554795101200455749680117407301001167680784714934801200114246961958728401200228835322657202101000968522621806720501000477906593546146601200232469426190274701200157406505845013701000610320195271783501001072460063839627401000255778940128329801000166626311352748101",
    "05106442571262830820200990887420653204101200083577520059045501200336551992517871301001091372273559328301200726258712420847301200253983171590464101200157466412986214101000089516306374470501200004565615157307801200686865290455493101200293710023404153701200034764260524511301201185598824618422101001179035831067649301200882548353321252701000535485263758634801001155566430813202601001009977150130628801201207666080587401901200938490536590072701000329139314414932901000082020542839501301000961641694349324301200889085210288438101200681220941485372901000222738644383954401200096419056699242401200634554672401387301200964330880399417901000974093474012793601200772107722383568901200016648800161343301201077631261253566301200926750305636248901000905077201177897201200139586642540034501201026959580319543501200760667882364196101000492008093706465101201136111983242237301201028615574867003101200124629771166813901200469759420631252901000763888761735325501200511015862352737301201077750936382443101201149989176482027101201129171340373025501000812430455475493401000332142813604411601000127854976648716101000234214336604124801000064738143478858301000015595725030084401200023383022974615401000821106352867827901200101048946045613601200623185114014407301000890215995112010001000761957980762012801000833620513848493201000463410595448833301000763312403854852701000143847924330218701",
    "28867291244954026988000634385833544591001201088948815823880901201195178271493252101200509166144117833101000279204745083854201200993969565425458501000594780104624202801200603297042604666101201101195791077505701200377523992483612701001120301361759678301200025896044824657601200701730550467380101201152387856409737101000395361204694959401000367708142595798901200159796060819816301200844112895213206701201062252443173468101000320175594567626301201184667673352557101201071414840051484701200963160202127610301000649326360144451501201039672230497155901201195791666411533501200724067082476767101000852816481260798201200087923944736224701200595868761546884901200008698861031368301200334423986102399901001050418632384949901001080301463710874201000634311213248337301200050330481298341401000432899200700430701200786611120654647901001135632115389704001200552271140897844301200163779050480457101200653811365042724101000928795674012735901000429574810743536601000601056056197283201000171774496288817701200580292186149574101200965161026508899701000381938680005774201200610785165815343701000581797040835077301000451936050494433801200192576520822609301200786811776608579501200067542755067110701201051790690314417101200775303054511869501000579380982871359001200696608105483394301001066146145113872501000134973811786056301000342410491982777601200875534576154670701200852758101633645901",
    "21575111615683005546000830718800818363601200152840761557755701000581663853957835301200796017200521059701200938411843497930101200632196443892117501200377567862689420701000446813083959306001000572421680413580301000954113380822366801200126732864422883701200462778762912409101000739704494329766701000142299914826164101000910315301660884201000772642953528956301000106314784463478201200992813110296686301000695050766359365401200850221510048477101000750913535582417601000137179115447209601200103540660093492401000947415890364808601000074675293125974501000929621996007827901000570995974553705301200001839435022484701000574580856495356701001084307215385918101000323881362562009601000854830852143928401200235731510457746501200241540911411041301001049672112847707501200325025134997064301200664773700867499301000525094850290340101000525032712755720001201147929600794821901201119591866404738701201109776084640431701200937513925841025901200148648103205405701000765600250552778001001062441584002279201200242757772529546901200636991295299964501000449560336184651601000607319343336194101000383049031872935501000928854263467791001200350733704788544501200838002640653957301000169233706087300901000185618785723526101200736596312903600501200996488533226605101000630563890978847801000571500783887207101000911796802522465601200598716435881083101000341613562475243601000734295834580608801",
    "28433331464543553804000302648522503127601201116358331504977501001042335625515965101000101198095050439901000337011345282284901200589090970946180901000411595923055796801000894391811765521401000897188635124028501000164743512365602501200031406821588837401001065828920324531701000049370405612579601200487506320509194101200196366734613328101000217108972120415301200805912260416761901200321959562867509701000584136465445663501001202131546628019001000536300233669024601000178727791057978701000721430783841126801000078942922553832401200885187085050995901200600283373205703301001199608750177920601200497910392741518101201115528341209611901200156594423954564301200777145572488241501000798020622713375001000358089935278441101200023065671732945601200141869394719039901001123514840651818101200619205174594909101201136241213961293701200928564443566399501201126171546470143301001001550473216503201000067195241725301701200715885740620634701201118338265443234501000411181666651019401000807644343757099801200136943634059959901200378532231644027301200558274130999070901000555805155895573201000813186293955712701200944916731053049501200016015370848457701200865333613365894901201096454296119034501000382965210380757401000218649794673489701200905871684936207101201184629596441724301000214272736036148901000696064593897882901000128857112867109201201013137960001913901000411440781571149201",
    "29560228422067145472200884625424874798301000426276286147727201000970589323351388201001202418450434074901200967298642601362901000373208802589015601201043505434427123501000152269050828185801200562971420572560101200284095526027766901000655536083356851601000875066445500944401000760381212925391601200851245361756742501200094647764046574901000060347470650928301000704885203520787801200199051484733556701200820443776561322501000907564930827105301201042233875740475101000150510103271356401201032181225098263101200417296435919375101001117006320437411801200335657403303659301000015599363239671201000849338285098188801000933331135527516701200306714043164080301200366398983800848701201050956313377664501200355919804774334701000579886515820324001000064569890803990301000481685350241668401200137683713736210701000617848693279366101001034452193887164201000664987310358016101201017659473387996301200120746216640899301000783347882615118801201150953476344660501200762330475624406101000583498652050250701200705253725845935901000346153992485080401000997883411558117301000853025445772884801200249057051337699501001111136132714957801000024593983966372701201196002535304337901201037365121070516301200485621400974320701201157452314439186501200268671030097470701200904224064499381301000751107494686242301000788667743189283601000921465750292460101200277485381998997701200735606353349103301",
    "25178571536153324865200905694586389642301200980160595891253501000752701652702350401200527661033471546301200666540636381382301200302470730450549901201171936231349167901000669738822398509201200660885151045201501200377686154119344101000773759393750460201000995162824236539001000701066474815817801000917554262754719401200612039505299175501000742453686345069601200623911981968540101201035154943505746101001077029104569193801201059349470336117901001073877491504068301200375710472397717501201109993323061016701200602135793710960301000115217821995430901000765800664448871001201183225362479205101001147807331247758701200852398995224525501200452742334476400901000124267046692826601200685136406573593101001032287720242918801000431281683946868801200498132640270683301000894649133476575701000434678120462027301200883702630456549901200735743962752724501200693561751271593301000326735690343618501000401320763098020701001058582694958424601200455730673273951501000738583615666623401001154663505874680601000855585775581955801000206723846609027901200512404445698353101200959033145846979901200478995365955751901000805783630850926101000405817901909177101200351606722499758901001181290506597738201200723218364542542301200685283750910782501000890291001843705601201154378381746353901200157213454129503101000754354693840791301000674873104293342201000834914081449371801200811265425947295301",
    "13255056714021808441201100522472957746301000052651174335588901200881444560519719701200559585203750413701200865774882747156501200766010106083971501000395546891946977601000930876483310298301000351285845874262901200459093133744207101000854010181872232201000185404476341413301200023022972572306301200740128120854699101200882575892026358501200340276630732930901200811939984480038701000791072333557071401201027145180042144901000821785590666185201001092546293237622301200697653661034254301201061058996688851501001169817726041639501000301814402697477501000253635590736528101200385919735149666901200348534642662207501201110980890517277301000011554055610191501200310153844508498901000753238711971130001200932938136622184301200990523251085051701000846201312220704401000276731001500868801200021817736429136101200791845516324390301200402373656333752701200434357812072984501200978625943165240501000327728580847232601000172142084231892201000794201905246098601000423192633777097601200518722492091974501201006827962524727901000043997751423364401000559261375078194701200247559694344653901000597671043698153901201130945230334207701000950796101739744601201089846331862094501000171822220069145101000244049085860196101000797408745979312401000747778740955557301200674925491181397901000388174472865895101000414017926663350101000423527483542028701200661990193003735101200939886090102422301",
    "20671454721601550628200430355092519511501200699880354249947901200795199981707573701201097085672142359901200567128450367670101001168798253139246901001023849800867779201000205682325573506501000038035794522545001000026709363814812301200405648060455473301200445320472796853101000833548964348811501200062274230324097801000471097686085768801000846838140844436801201049721455565784901200950149903194667101001047291803396268601000437206965462092201001041815265979040001000836556093256392801000792349465375920401200008567775785873801200669493490124356301000810444722678287001000433110400458993201000018227470052653601000934787653937100601000860979166170974601200466002683059873301201128995924260405301000391018396443167401000964285641335667001000230821894207769201200864455586225256701200006032962398005201000539335181534816801200229631402098157101200848577175313232701000761183345896008601200880666022762584501201204735641208108901200731469945950009301000380044494722978001000601141865594909801200565903362040814501000186699926310801201001158414850185649101201001872773413014101000207704396669654501200054881853012598301000505566945876131301200584419583093625101200455743530500320501200507801411455280301000977094484337497901000431301405370805001000985064932756959401000292301976528408401200982208203791666101200121241872960402101200861525045806125701000128982585978859201",
    "07439476991325505671200828342954842290301200918239332786288501000781322775889157901200661296312688233901000260593481642437701001151451803005295001200310576656427925301000500864552071012601200133912113691048201200619016886128491501200255714184726921101200689230496413901701000827051481761085801200477802606699283701200529617990990839501000857045290969365001201019636056178495701000909831335132235801000729686544669241501201195250614444458901200002022072879970301200558941024704399501000274307943819030801000850429425342226801000864808016274597801200260094891563640101200575882406633267901200978309342474887501200126659141648967501200200037430906287301000595447534249130601000153289442790418901200535140894941159501200157291463550924101000277776634405685901000456524111809829801001072485050109152401200839836050055343101200734062671443843101200630661803704198701001003990705528888001000554950593819365801000336174282384286001000926500820235658701200499814830112890701000423499085702293301000356652350164922501200232127141107526901200012007751345072901200572204102606903901000009915132415905601000648820714206825201000256170791781947601200685005204303375701000072864093694956101200877580434660509501201190879702884458701200592073372021248101200638135842839596501000705073426685410001200646607581160554901200592925871459698101200764471591188407101000307497483514137601",
    "08761623545448210519201098049771103852101201135763601269813301201178526565824566701200846749695801247901200781870553184677901200724578672215280501000097433935061765501000849301136640572601000638891033110411501000776004842891586001000567955722707139701000613156843513668201000519598142576398601200549460165281194301200941253461675383901200266813225164102701000932090693555066001200445948011940277101200737405456449802701000950839680798674601200028302444761979401000432967184215845001200174975416497617901200080834435387850101000477071451827206301200739864821790965101200069315111271050401000220140820670458701000159574492783170301201128512625998597501200424052893630680901000009726705970189801201017668366486064101000352099566419742401000991926505803355301000630941830951324401000929089051124808801001147079021024071701200588598222449426701000647943060613484701000026665623916181601200004950361873165701200295344783812830301000382626234007295201200545612666411775101200670124414169696501000486966075587598701001074830074607256001000634116593866287601200879143222347824701200399718380169401701000424185180471882201200523923433982735901200348095003662557301200796546702919704101001205222362298306801200953015440961522101200304647894469709301200361394606534726101000974168713422372101200431550020267310101000846619750995387801200268497500271233701001134280330027860901",
    "05801520866376702824000927832502464479201001090196065031548501200241361272833082301200821025822124885501000043374912716301401000108770046201431601200115717251687603801200123276195587704401000296933900158391201000425218444245961001000932755090554713801200389516122465779701000623167056186060601000591348931569053101200522027941964818701201086346391603409501200145453914046378901001064059473672322201200644940063446581701200372521326708137701200309125575204723101000048933382164367401201111135285096673901200509844741438886101200686452113675487501200105080442178649801200840811953369228301000457732222489164001000735455521391109301200868223842390068701200497282832989112701200135415192190962701000701233263684237201001033161834406023701200037296123089152701000381214850479304001000190087492772720301200109638264607456401200602391744821224301201087550023717668901200073088205514420001200419008392428028501000205808165374124701000558037606561023201200339090704854633901200288948932560579701200391968352541378101201049093744411809701200576453872632906101200183581490181483701200615539795936638101000810394696698437601000597870391265490501000640954955807397901200832359986690110501000466503473492201601000848211601998041801200227069493434604501201092959712773986901200469268060238712301000759838354134076201200125706625042125001000043660902661512701200340240914382883301",
    "18309231300580152086200418850492680468901000663656470355146601200789725383137978301001192781821308094601000521786075713126901000386824982735918001200935619122623444901200206769232344176501001108455284820861401200389486375130439901000828130583704850201000602220631962757501000612374331395068901200773330021850895701000593328671226490401201164836863087003101200766891743450890701201183271521822415101001141412462980613701200207426974204323301201037225981481745301000780187384790536401201121802345043083301000010322590828817201000689272165938055801000026806576585297401200998883961981733501200188052664786849901200257021450694341501000269866265099312501200206620065822330901000621585196210382501000241188270275198901001125492753213069901200915755842153695701000471003022932159901200488132701572113301200409156346427401701200081581052191055401000330934313862169901200020536152345141501000255427443550297101200761307303802739101200150488050590434501000514537863831302401000389004813977009801201016113365209504901000555681243193958901000716924095013174401200531823733203565901000272378362257984701200186947711737487901200448605354248742501200566267612800345301000701323325512704601000080145460499142101000297219713620305401200200883191164608701000397537780450019301201102312184276092901000329130865599157201200016332181982347001001062687255677772401200906013360154742101",
    "09065482073500513058200811203843263666501000843693151281092001200440332530574984301200846183581567710901200176398602152078101000855058215643014501000354414594745552601200685342991538508301200644890766071801701200964513666545348301201001730661584164301200633668485728070301001189763395392365801200035748683238182001200708197663219537901001102995955125761001001144153540957133401000311413845202562201201035970451574068301201034566044041584501000585495374316545601200904345642710023501000901616463596337801000767997252506509201000180392116140273501200557636034570956101000838380683524838701000508928200872602101200641755264323111101000178551052080046501000859894152771302001201038964792859240901200156247922472906701000331329105789696801201022746035402059501000503406270520430001001187677476470994901000905005635375295201000076760475075370101201135336573246451701000834048905348403601200309502756317449501000790577700182760601200423269483671855501000024330796540296001000562949391480536701000729430680063005101000582225830716267801200955009835352014901000453477701687672401000623796616119868801200198338491599820101200102067113437196701200304870274613178701001197856380379157101000923555553995205601200320637873801751301200314308532155221901200013743533223729801000118746412127152501200213844950793936901000131566434189370501200402157245375439701200430664196284774301",
    "00413241624197902547000773475194776992001200768258605025230901200062945690741817201001204430365856117301000355146916009453801000843008100222156801000227779371879860801000988360152703190001200390052273989088701200191093583876090301000898620135131502401000914840152227513101200565670456665878101200246857530404581101000677030230883619201001132843693555298601000107103053071633301000964960291297896001000949550201006444901200423114071827898301200293891815679239501000854977270573199801200141252235348226901200756170173295677101000080790555118464401001200037381394665901001089473876228840001200348284212658567501000194846934278158701200015516991956378601200502338453426065501000997678402634764901201008257475699809901201004870536044622901000752880824921291801200053251445024684601200522152116204835501201105368355673700901201068328525931983501000262069641729973601200746804085480768901200330137330432161901201097528171283199901200008572702873701501200034612392233092901200337631641580460301000201636382797159801000789064266029116001201073280452133536301000060880931553472401200560187312155198301000400450351518223901000844808524024525001000318742734680181501001197709534266677501200112420613417760801200796698546621917501200215911634377965501001031206935986131601201161872994154242501200157945400759430501001150271811640342801200039124174619410701200037517075635889701",
    "13439395700906548207201182962854073042901200878503705205596301000553111692597379401001018972406238948001200678913075694165301200143969451554590301001143557094951772001000190574103950037701000142267463672163601200727736005806893501001075514600952211101200483930544765610501001144963244482030301000699292544767464801000086620284289318301200745258555023332301001129785730894112801200429570214770025301001092447692052939201000118410314245431201000956191553234310001001186121830852299301200441857581455407701200623424061346231901000650177881556642001000787121181314835001000841200152108766201000275222094985697701200305711403969280501200061072365468029501000319888131828095601200117576780565361801200706055914538312501201004385562261169101001050939716704444601000169813333564135401000174525951670116801000102280652911143701200938099193915253701000601022182900858501001038545163517875001201081576584011903701200880855466376272501000086921900220980301200181336740476350101000417024074702190801000082935283149844101200353271442696401101001011322471284439201000844377271769114801000617490353556278301001010183094891077001000969925500595065801000415643663818798901000768441086553185401200250166234978678501200926017752715241501000041283551008620601200279827350404415301200867778753219013501000071425914739031801000355123725486020901201081923360856552701200220956451955537301",
    "08719221921062144558000890424356155727001000800852430633574701000134229941349752401001091161220564313301200418276274077958101200961217843788104501000051842321520298301200810466461857565701200200318312376274701200379301054961291501200753345442737311901200444284646004329501000980532330991255601200391185860003614501200777054754446341101200916245501722423901000015323270031753401200915154962155037301200883908210719374901000965793536028701001000337967453726530301000938343602644533701201135132954412142701001202940804693371001000625924293450723901000821581885760045401001078387504247097901200972310965300272301201181970561327557701201003044445968781101200071072130572772101200560806425011373501200334048855183893501201162447493055543501200549633932356245701000521349612691289501000735666711318074301200875374455002318101000128385302503757801200619426095222649301000604587173410088301001026432755417774901000606165253440304101201055960225818397501200888426084451388901000882300133778250501200560797780515700301200888356414579895101200599541212674440101200150892984279556301000399884641093416401200243824072935586501000265658064531790401201184909235656986901000574372814429201501200262941921093944701000419107081723890301200864270895230232101000515170370357093301201045714923858764101000644702526648925201000313175532113816501000916670710000858001200920265853978696101",
    "26580580884267112160200167652456382417501200992973271847814101200870870174382830701200711113726258166501200686369482160908501200435568892611313501001104694102660702601200669492423197627501200561614490386205901000935439252115242101001148229041348885301200771437863620016701200964784315127675701200811577653509872701000439544672517848801000413771551070300801200183819220033146901000298229626239200201200636299970425755301000863915704554183601201056647383719739101000950530202690722601200173056581710277901200120542542391103401000911755025238844801201089103664176726301000855698392242561801200317578612540951701200268485030888582101200354868821262618901000283819863167389301000211203470966579201000246312342555883101200121591681002177701200873538796314591901000339957652385012501201002469631124750301200464678525682093301000291075191971127001200731393654219246101000346783082160287001000867428291630540801001061273344838759301000090797226268068401200209125691783740901000445308044963307201000364186611622175501200824773273469311501000186267750318967301200498032201026712101000949706130419317401200986718435712169301000114812370623233801201105302521282141101201087119961882058501000071731622231718301200841429652660967301000769365666231560301001113231815411801401200559463013115140701200157097275195958501201112201003430060901000682070033383122601201075198712807996101",
    "15967341673272559209201093045604665497101000383215815544986601200378003526100256901000637374964456822201200129935745775970001200700366463512006501201072909663054901101000411933794542555601200890407151519604101200667904011513435301200664204345228302301000304789280025833001200592964851946535701001102553875503704801200497659633337609901200374749225440897101000008237400334665701000486999730215576801000121040563604843401200940434984939779101200217368112664170701000811519030274084601200555478454617255701200812166072302536901200267298646580603101000450636510615971201000502666435271460001000338421055338312101200308040195977244901200717723991656223101200728710241057018901001153667544198932101200411261953333792701000665298340570443201200869433775266439901000321179394031277701000149035123424692101200315596155768992701200606810615570081101200415178543447543901000671854775946167401000864302933020955201200995129680417083301200900281215375994901000112779175787079201000789578401059275401000968264783209848201200758904425696159701001120533833978607201200015149062472050401200548709222332872501200775379554091422901201174935030916062501000934462794084991501200680181041180784901200075923664597786901000710890113323985501200416110145807035901000860034706127879001200064659473228770301200245083942100747101000613222071770293001000238627124122991501200008222925475012201",
    "15965002303835657906000694401874496735201000760897561261153501200464723951808901301000636804975267567601000010264570295201001000440010062421884601200193373091966875501000420352451613483501000844467011853017601000024886042365548601200778868161201225101200879361955581242901000239082592990371101201050006173386133901000120022871101984001201159496182275352501000066357133729051601200816011285807594701201063343261093043701201141022441925556301000848006900558415501001203322765446788401000554124626158985301001129398191927255201200181931774996896501000330942415855150601000626385380674532001000254479902044506601201070551744328541901000189992361800996601200621697405762052501000667156425558515201000545706385399039801001206293432943603401000087462846238133201000750877410442852401000528110871306616601000873393491057493501200112561020609006101000458588375657903201000228968975062739001200217966792357705901200690317140238595901200448688074452188101001120607115474565901000524873486135152201201046888120675532501000084175690261648201001138691883066952901200702595015525878101000395534544518683401000606386042645343901000303178291454302901000332278026305771201000202578371816844301000070107705221590101000677735950462543001200148641483542508101200879744825421081901000359760242716370101200764774573449231301200307891173589643501200874626585267297701000480382754829397301",
    "10204361824398357791200981170215846620301200244405102864656901201094072312350625501000768293216459236401000156562521070395501200688755246057937701200970092025132264701200391657983888109701000886371193195992101000402544010715605401200441754061013997501200127109295185298701200627186634974720101000468709590714144501200339842601026560501200716575933745031901200014729014756662701000360543103978104401200014386901661123401000110104534621626101201118512674834429301200052572602759949001000138821683721772301200523215305349277701000587080512878785101200304612762202264101200958915374781520701200313865196187014101000292018625167694401000801126606395073001000465707604526433901000708557842009655401001125342135706629101000268715394202147901200479702955080992301201187968116309478301000452907506012208801000815936764766617801200235075760677075301201021980301219093101000767159241186405401200255668864506467501000633295742881609801200222619725567279701000999486293840198401001181002502641822401200027618765846787301000610754226708897801201120932664473053301000883687731028279501001162388510280700001000357726544239471701001000977181160585401201118516646077304701200405616646260965101000388217026242352701200015760162672339601200086319834557779201200881888030051413901000872221692065268301000167028684060085001000201083406006514001201035973141231758101000010887855613246101",
    "25334365634603610464000267898304857753101201125887652841943101000571885132010930601000328472353811222501200338045763361623101000548364224881427701000281534664468922101200503399463666411701200978197975966032301000528217695061894501000166410996007585301000105329614706586901200011584090975254901200537474965051907301000113115635219302201201000011480882236901000708419451189074201200947378153065600901200786293305817677101201099039902555620501000922348321749610601000311163902275961501001083147381737840101201159028230203330301200276262504407727301200810777053669979901000625226222883549801000350721095445568401001093017524667691401000706352682363559801000488133966501536401200847529784852141301200345122163098617101200053273332630442501201129288846139805301200998498580593352501001127228423670094101000526689700584925701000490646843429389701000419653192914314201000118608025434155901200035335144255676601000848664622211457601201141659320366094501200433088992810276101000609531520571873201200132983795887912601200599377311643201501200112321581567716101200758041015420821301000583535006341665301200229374083407590301200755539132425829101000952913094806086701001174670902886519801000207523012362746201200778537944624892301200685846966167364301000982870713391946801000457434235097570101000670140190218724701200331695795851448301000428403890040695801000101327485057270701",
    "03038016681158362739200452708005634075701000034666183589720601201181439761165575301000240861070220155601000739724090860012201000171559900096214101000237999374298020201000915776310840241001000007241670903643401000598158633297877201000797756334694082601200299263210184510301200215117825730678101201098387992980515101200911800553150731501000753083404709361601000664363601695873001000606234796309645101000677940724269170301001170999191031817201000899130621738207001200546719083716771101200598368914882674101000484605216681254601000957219554303095001000964678690636041301200222044921961012301200219611260927865701201001084582781709501001050657974562026801000286659500488312401000237186346317472101000935775161429451001000718257673778718801000568262265685910401200625701501510067701200472759461160164701200655556976280241501200925422590119651501000105746212873495601000465318461522978001001177851750107963101000203071040696779701000524228810336333801200781727375896719301000668803943803128601000206513483617900901200933284822591601301000688156574127106801000030825992885702601200480646252207551101001205494760709012701200436684051301841701200596524825370319701000755319294757640601201105968761154938701000441820511772406401200512508334426580901000202264984883638301200568820214657470501001033759460701524401000007047910265395601200739481956196225901200236075261994798101",
    "26834529124820300948201075542834306212501000699880303343822601200205289484387594301001116957710882757901201109389991609825101200433855381912575701000032493024833242801000129558392209312701200317932260598028701200276427961535875301000146401503042901001000798051412734380001201065394230246012101200832817083726337901200391606333425784901000859372030967476001200058825415432077601200303818962465215901200971116351616159501201101434334010563701001009174185467912601000393708893497258301000634089774001374901000147623371320137001200070555000334051901000847418046617310501001158650962355124301000971672692620987101000862550330634587601201169512860456579101201099016656265344301200596447333801396101200171384162248360501001163594582263821801000222588885689533501201120735291528346301001150837355829662101201125292844083675301200704729335734152701201101550013744541701001180175871332469901200409523451900696101200098662140067302701000434960291006498601001029789301428063001200367393634675916301200900623461985391901000098953252961746601000372113324098711401200882163664151752501000256593242336495901200596436192761025101000136797155530794901000706529021920164401000155835775048003101200093215954523922301201155571294339253701000286919340005801701200752885513917554701201156671361637105101200740698824145259301000787076094821632401000093753292164981801200555440725892930901",
    "23405166511682147719200568173322265399701001191367934761340401200989657231898461901000925449444536515001000838511910553808201200451761640688414901000765376504824996001000360857302636976201000543043043705280601000711501102181681801000796487294620200201200885998484731781101200990553122323606701000583554710419568601200320359650258627101201009490855381057301000168208333914226201200386696555234262901000383204554646264301200722998155096873701200038527926037980101200375866583544318301201206828406321804701000542919614639696001200417974542130871701201070999133082903901000223388495587141201000712976182750010601200758381104114319301200774027281703607901000064597414530809701000254773005333790901200982381644503529101200764332626046274101200014737965723518101201088494955158175301000912682476595961301200867753592252768301000669840190942990801200906800711409104501000534405594262210701001207354450691538601201173927784889861301200294854946256696301200396922814708198301200153077293909517501000402596743767066601200198464014884825101001078659352837991101200666168193067499901200566065310338657301201186134496610955901001154917202382384701001093870130830465301200287193401215609301200690176381440934901000087475114661147501000974179665380347101000620632914746663101000215686502506055301001057904333902832401000754617474648602001200736210653763810701001203739775713879801",
    "13348523026005833249000055001193378362501200768374730097374501000013135224083909001201085596795081976101000477007083800584901000384045111348165801000884014242921973701200692520844853565101001157034560063803901001008453491108637901200008857944302227101000662681176649916801200336532112868334501000701628295019748801201056213704585839701200682237270470315501200427393100816271501000544053334896568801201089201160992085301200572115021149753901000545035831957477801200375738525769183301200473764542261963101000177597022624762601000559154374816373001000624666931452977301001117433654641892101200719507521532238301000468665506577715701000034388254051804301201010973471691111101001122305590573182301000756982440118472801000897216192604442001200868090294113366301000972591250812336601000175459874905735101000551575013240441901000185311290212375001200444970062131367901200656932180355139901200723165092062411701000300266902522882401201137886002558263101201033132656081560501000261385195476097401200651207914719886101200581511662499726501200339715600072494501000824636681090063601200632114864057551901001037586792780752801200067075862389656801200893658935395951501001040385455844299501201150182612169219501000504994350000818501000097180375651768601200025231013998047701000823878092921658301200528280324075121501000633003446392635601200308670200531710101201163239993115856901",
    "07715273654993259814200820332260594780901000773662492808678801000001648512631493701200861566283746695901200383754436058592701200303968672297455101001203896062836331901201045250602327703101000051739381830098501200026398054859991301200634874830914682301200694224825352065701201002791254511795101001082310681722857501000114071142840761201000197954371712373701000307945175586155501201174483640733599901200224140520513904701000051635123143090301000674718522118148401000551696002806627701200500372192106366301200497074584379422301200520204182274636901000612328066116072901000856333271243863001000097701925880091901001012817260272252501001054373870665397801200735972104345863701200404488261740627301200305400571845586701200638452963004488901000674305054737373601200540004153402287701000023637583405810901001128590502491076001201107391766205505501000873026473302649701000568844820625857301200482249154284481101200457208631152224501200236470153700662301000291922994085587301000813702733961932701000344748114924446101001112119370773629101000266351631456109401200144893386452258101000245119234189575601201116219393145979701000035695153140811601000365802695625658501200413821273601243701001178213823353968001001051997614578238901000552378184984739001200878386353695178701200102532943508680501200713111213662964501200589576420461744701200427129540545491901201021979752896711101",
    "00146002415051839368200575424481606816501000975392310039291901200039789746239968701000506629182136959101200872980596125467501200699564220667665501200744053500982700901000587065715267967001200719006902713685701000584181402309629701200179081751300680501200189526822357109301000627331340445840201000762563812962550101000181189606397643401000483096681142605501000489962183033418801200896973796319405901000920528620792097101001148358651370968701000439771442498165001200626129672530041101200833029155517371701000322472106492467001200196621303007814901000359232350687263601000265528031536447801000256821126454942201200176825314621325901000907637485799754801000343099335840036701000756680785123968601000311634932667211601001052383313055395701200426853120879922901200323299395750658701200286172270086061901200112614575838500501200790052484150299701200400361870925671301001115375840355582001200227309565823141901000776144604929238801001117091062233364101200403034280855790501001032871455495451301200037957106037299701001059602123264798801201038221300988385701000131223890301636501001102681142503273601200558684894961034701200243605462654928901000505145142464133301201014676686187795701001066625013904389401200366957613746485101000128473302530387801000867424835474647801200452697071485822101000851481893668089601200163693621997490101200561546793635300701200885254381760484901",
    "03457125531776664838200166154146014484501200658197905034248701001094900840060697301000233104480527331101000066087453140843801200994936505308091101001094829970540876501001203570792665838601000758021035002871601201063201162971779501200737499435773951101000181600304764255301201047447303152868701200094592134223423601200515699074836745301201182795181501927901000901278185605290901200239053452492556301000553409984435356401200394435153839039701201018081095270677901000492851130699661601000382885124192457201200576174413110506901200372513836349903101000296511244767955101000512518136616297101200272736774384162701200158794733202499501000183350324290794901001101505410444918801200916577740512960901200852749635852654101000737747416404567201000166140961008554501201114722546561381501000820887491327012601201182730134703623701200632000802501195101201039849142250556501000172152135099894501000454472673410981301000076418753261761701201022020411524172101001025631191627954901001153567514471888801000855561395961689201200242418492533325501000092460061399116101000917954332093869101200291776574339400501201166626073576360301200157417426703043301000924563585499110501200975925491597127701200356576874943376701200126117200013535201201021144721925978501000444404134532594501200516819000987966701001098341086309631901000135106802188730801000984077576343549001200070236794659541301",
    "04064315095825848088200415037515367419901200339463612810807501200277617941249269101001034862680849352601200697271431561762101000439652640093654201000181588140134193101200219157765647810701200376247574064891301000670979825677100601200398992620240297301000530648224486566101200561921924869128901001184643322883873401000260384741503991501000548855554110125801000617222242242794101200951328455983612301000870785433062196201200523469400814186301200193757716302333901000206166395629173201000563071442623157401001106950894785290001200534097226487785701000519585664024173401200655000195024550101000957674261478985101200615825641073717701200213767253342009501000038108691263636801000319439515537862201200174281064587937101000838934614906929801200587468805388031101200165504135627093301200354775306178574901000635857636533062701000633689905932082601200229209772076823501200632855374952798501200740061943415053901000258598660510369901200104801374388313501000589813025760322401001134534560487365701000219397901646055701000560227144717853001000460940040452324001200305528091677560901000682702562891860001001200443945783408101200624741624614823701201149584965788840501200723199821864011301000404980092810589901200843811615500809901200629105826203948301000496724355492843101000556404443934075501201184301953260422501200517565481039999501000168391563658475801001078216582439976801",
    "12655388552572744363000826913432390145601000987811764054961301200097247741433629501000999317651984967001200617110601811340301200769510560534288301000755973500416418301200512001746696609501000395523234277493201201083131834140199101201188644923335476701000092023163695702401000846598986124763001000286015464624625701001026978652457350001000995112486459180201200672639734911309101200752281056057612701000700174983836170101201133232002910059901000540583300851984801200720402164040484901000904714280420564101200034062195637569501201159780623913543301000206527590080083801200307688941655159101200270977222974815901200289727925358125101201040575004131701501200624392596521005301000774303002508766401200343416991200475501200603096224228152101200457615291487668901200427698711543226101201099944315400960501000189368343398900201001198754681025588001000369465875317915601200233147413200292701000420914435042406801200740382410515480301000929684795432740401000186707411506226801000555371401832767501200285498136111173101000100565284604948601000501233200873061601200888032002652425901201181403931566704301200397431290889655901200921364045535131701000026798115610243701200885181510606435101000189489065040939401000870323465594288201201191474820465341101000809404182737781001001162562676155089201001035614752260333101200938696821379990501200375280963245140901000319049421946690301">>

NormalCorrelationTable ==
  <<"00000000000000000000200151877021036722101000159577330992125601200773604655315102301200126715095718301601000647066934042514801200436792200358278501201575179310217017001201144035493979104601000850083700115446801001528577952185044801000752890340362160201200049920111005463701002808543131958867201000264291480231722001001505010026493258001000884549343846550201000657442834767609801000382077793479738201200497233035575416001201259313981815957401000155264672594661401201650632601147268801000803528256561687301200424609944558740501201091355433941623901200113563052070789401000898117020108557301001113406971726141901000552914282222611501200265986801811580701001219577925824046301000252675632490663001000192337371102926201200653319590119619301200259299535003283101200429275855640426201000789798512763382301000156568024622867901200947010655096430401201804004414780645601001520900234093060001201828758683151396601201625763072657432401200943792566417339401200319451703178586601000379206061617325301201761230011135507801202367912755196355801202176302050181907201201588592153007848201200431701080505442901001459600032499687601000005380411777233401200792995165686831801001556288534405680801200477291464565265501200519257954173182101200840791454705033501001430366605797645601000799309941662635801000527196123768924301001413073385665366801202101086041088041201000599040100913335201",
    "00000000000000000001200417451723908998001200992481483045890801200399154621684885001001574161223808001201201093633264769447801200539202425675411901000648617786463094201200701967163223987701200440388705616004301200355300155965072501200034332915292651901200660407172940008101000889606746041879901000196788625230486001000582380626009903801200723382001832757501200047982696145857101000353275923942755901000944513793955114501000310677822520506501200009835423175082401000332917161352462401201563176743690900001201216082251949038801003274974612342730801002281851592899892001000211117615382839801000509988940286197601200258072096406453401200262516101635974502000148076915803686701202558263552523093401001343276101554554401000456131573517904001202467585473908927001200781191061052965401200800953732847589001000620898904341093401001990808143388405601200202290634970819101200131684605829482201001482591635094606601000825310171529346301000087025850729965401001141221744928320301000118706144255922601200115339633412892301200042986733335921501000611579843193507401200717223653218048801201076493633256179701200387571772848224901000988389015980241001200883806363316008601000605719260041830501201061990464431331001001294675845322078301201104639392020067701000024235841106550101001508438150086475001000379177863711194001200065353362970945201200329520902581391901001186443524954931601",
    "00000000000000000002200228368835620636601000631458972133915501000498964051894620401002949193843862955601202173973722525060601201382106092818424801000393097622841004401200934727055260123701200339691113158403801000668995583606542901201180861940209371601000375139744679539401000397205973914290801000956881236524047501200549570945311591401000119827232759388201200658686710423747801000733455764024210701200153202906293723501001077830952525090501201016455650703254201200227138776328010501200399316404624698001200495872121882944401001220954174741819601200946050963514567301202484413813383618801001979172271467096201002089059100729869601001817775480353711001201016448305343952201200155483305326941401201302594051085840901200872667271921686301200254362231436580701200343106590461406301000205063813205747301201049064805143814701001364651184751260401000509588395823442101200293460305471078401202176043532104474601000923441730500423901001303461385905563401000680428151310148001201170841612585643501000283877144578557801201599757631375738401002261939914827911601201363210305980563401201250076556419103901001713690770731736801200185520704600507501201468586045603705201200106202644671098901201207598881366488901202868767331249056801200330899082372768701000338690492912011101000931399821036317001200782835823857910701000237641961894085101000215918384017156902002204883211741556201",
    "00000000000000000003202465347745057779401003087139984220036801200505046493746411701000685842716078392501000546782034100923201000260432651703481301002440061536449784201000280164930666639401001045142400001087501204014049004981202001200272741094135515101000425963734264283601000339783822424872801000806972963329273601001274579184782373301000472071772269310501200582170533750797001000288163105183722401201156933772517507001000241352890212005201200029304572256013901201867289061948363001200658465421998832801000610295874784751801000220862083921318101200652932494026043301202337508073188081001000325690446594137901000294209031923411801201210754285879065801001070807753896480402001147621636373970101000352386240863955501201066071373859616601200701039343732025401200110548473957723201200809458954195551601003416305672119484801201233697323839930501001159212052776287301002015625275095586401200333935293907941401200846229883934284401000537261094369294401001300254714280441801200031557741484344701000063716613244226601201697905730614205001200902838615178641901200234121460827050301201342807945751697801000248263530865620301001118449232806005301200705518813843952301200703682844846680301000259504633517473901000945601096133152701200276808645825360201003012523413584604801200833642805496198101200593552982762562401001979673140889832601200074112555541679101001164593395136933601",
    "00000000000000000004000787337345842752901000211051421452570601202009711284893955401200796223820395391201001982741540416398401000006285331783797001000753118980840594701200179540865530170301001942625793568623401200292050645421296101200284330626138746001201903292513387311601200382494371503528301200616719714522720601001803624561243607401202721205662871580401002314022346698873001201330932074128602201000398510774885277301001063785372192058401000792765745225195201000811766551735336601200459253043723454001000132946451504432901201790885995305960201002210087654361031601000003721680468077101001077567310281827701200937221806217535501002558530856487397801000415168872128089501200253880393454392801001792936412531283801201190100572746628401200215878592532850701201216242252463899101201158656511456024601001183624682028774001000963705004219635601000245617415650615903201149867596166530401000245617415650615901200903505093683250501201027934065082469801000857270615692470001000733469636628135101000963737810791813401000705736146411703401000287401814411343101000159227243996192301202486119030893362001000611715135373256601000348767354729901601200553943345498631401001151274920851387101000445286683965424901200016088184386623101200935136990900326301001589692716172052801201656679630809410601000425754241217087403201414055511862781201000425754241217087401200204648182776816101",
    "00000000000000000005000968700723478840201001599772096070764401000300010792523407201200507880840949027201201372298260293495401200132520891997364201000667575606528986301000947982924335283201200904454603877853101201974751791469308401200329493645549217601001489811140316330801001157545605540350601201932758341301116601200245073781305566301002092348825554541201000101101613744245301001405129923863512601000760154562806176801000589491293797626101000861653700558677601200668458806129995301000076205301600114901000712009115628998701200494825923657559701201002431643316935901001984705773790799401000310119605656851501001184703134584951301000209164505268582401001557565691120176201200024993156115196101000045764441864808201000367627692217615201001265852831109966101000478581892754825201001318281170789871901001637037346665224801200271532071797339401001340049852675283001201413670352742523201200865608902522011001002413281754556481801200328720664819608201001330829122606340401200039931783256624301200052705681474399101002401942754144052601000281964964855198101000308984011164523101201162057730985793001001427139954597373601200891524760187168401001327514644360505501000400185995588471601001015257591339033001201750008795861426001200686378440980325301202937434503168036001200775409021139335401201020717042729096301201015510910394299301000732762196144040801000084591530690252301",
    "00000000000000000006201272121233351394201202145929636369081401003084273263561997601000166656212506056003001529736922812894001000166656212506056001201224532042156678101201633332632435308401200789749922645568001201808457810337696201200350257041453506201200665908395048798701200215907894699755901001297177873989949901001022693544541528901200458522413861279001000700852333895113801201535982630705755001201561150730253852801202172861136433430201000031496140751123001201671465414920837601001094221873066948701000986075173468474401200098210802320069301200339957064823355901001931513221189808001002090644814480356801200428920345907951601001041488315497350601201459646444289788001200476595844940144101200371066582016287401200251790262527163201201081697690856610701000184873552195699201201311398322567911501000635283223919805901000271788141220914201000822022750546226801200721951376340334701200043346715149332101001041583725228821701202418189995875931401000439351833497815001000140485421640550401200476135101312490901202111091611639962801000179241424930247501200849416920021278701200119340771196585301001768203541372249001200956676494040643101201232890970583583401000289893712459275901000018646470745409801001813529163062818601001839664376710775201000472940252329858501200756102200677585601000567227130478731201200352751823053216901201169023812824722501200115677096037235301",
    "00000000000000000007200001485973690045301200360872523792141101000331147440637255801001075798915744581301000549223915344229301001197868925580685901200072651036207078601201618925805102706001000594565563785439101000749508581351398301200591709382343759401200431105070329939001200127336146035716201001123967761634798001000035335015608904801200839898133544691701001623756801563885201000552781326505721901002296600166054588801001557709430293770601002224741430774170601000283980574947363001001531024082623092201200327676372252059301200189348971593239901000225805020087333201003040143931861866001000650719226128707501000058587180186734101200136872671322131701001848342112549514201000577106632204177102200177312673393246001001182011464800130201000977042666293109301201281522623907658101000975469223112766301000039284902775802001201068307185367043601000704965714887944701000134931434682325101200133436214692054801200077045802318550801001479817884868417001200091974315754845201201641403731190521201001868888191524220601201038099524576237701200144174833630481401000774870286635068901202416422273444819001200920778900213068901001448692483292090801200090012590217101601200696617690760547201000228041171049783301200824927980280059601000080350231508559401200806008063126285101201737677103596259601000816172670018857601200245383223221315901000559656811740501801200153735092018706101",
    "00000000000000000008002099755496700784601001614610426466012401001644161846645358801000424739271593562501002793505006022270401000228180171581366001001156294186397198101201079432876076797801201155832760294372401201681791624522576601200927072852675813501000064057825227974001201038596361138822601201818560342154106801000789515756560634401200737279494482683801000051548255236992201201739481955707675801001010935332380495001000364256104964641601200437690363138860101200311786761689321101001980386824191333601200435052952002480701000143140425383173301000289605703029618101000187598124064881501200264508961856876601002194132486352183801201875316816692412801001040586695194084701002707481712579070801000099021871911368801201760577391477445001000626448994510141701201873878202723098401201880722961377384801001042145260060370701002977766233790515601001492050806410060201201434370093749422001000986627745994953501001824837302912207601001615881056162601801200000217604651747001000031537991549493901201053394983179768401201194732356194675701001126119111051191601000189358165015666901001369747185141810601200086841022695536501001389887706150071001001449855330813308201202565007805398506601200039124464799806701200776933745673955301203065920180274758001200949261512288051301000137879644223771701200065942452289282901000899316182068244701201321916571912836301000398963291957539101",
    "05280136735386738038001838580915264246401000006439976403675401201025727370570158601200341212802823336301000865006526258023501001900103685199981201001275529845662946301000244685840881468901200303372193710368001200994401925410497001000243235783631690701200916900720162883401200038366775074572001200461682712593917501000315962000703512501200981276430688382601201297667843417268901200396932756506438601001729753922062307601200351249120400459901201088640576327595501000249753026289065101000983510750931713101200876543704250485601000302429254596917401000490104272928042401000182445005585835601002024262585679103401000952450122193132101001314309000991721601200145916994760510401200526183532530886801000925152002601929901000198369686540788101000178255231512139001000965535491559304901200544426650401388501001352423234993041001200773255093371240601200832832755554019001201602096576568856401200433309083424872802000400482586058221901001344677130970477801201148031492096408201200134563355135486601000214904845047284701002459548553567304001000030603945106779001201243497652077794501000101319053135933601202782465721548010801200783854571501099301200834881790680202401000207141925197751101000315304980580105401201328325992803648801000471611384295947601202074949131118717401001207974575447224601001372657086662957001001498121883704815201200803548185245660901001843068936295733801",
    "02413141351714541017000380352703520305401000615615824121765801202241811820013103401002870736855505405601200434384370900203601201679498763457217201201537247792368098801001379881325053533201202175558953288243801000766453180898241301003187941403856001601000077334161632897701200776712572109992801001323335964876890401001807916701381988601000097890411578551701200662641212371955801200409235870015230301201617515600470472401202806251204929526001200078170973363647801001744710795647628801001314929220492539901202441318731151112801200231867503322857601000965864690671287001201289875082716148101000078382001046445301000032165000663504701001061920024317074901201330026221374770301000099517515956167101200292799542505298101201067840362053745601001756630456058025001002012786674499686001001783268584735296001201286496264796743201000000684710514734201201706350115436750201000789313841445754201202773876260387809601200823147645168373001000777550690336378801201325660875858552601000818835485609684301000694046590724067801001678102470749876801000247137471237957901201348562101348580801200434581803060672201201095232435380994901002476715630177228201200828750100805176101000110307690536600601200416471312850856201000561618134891770101001479812893371352601000652441594594637701200973032952923955101000240546594259632402200047458504475679301200016974632455222401000424513270062836001",
    "25875099980988603383002085438221494683801200089543780811783901200913300785116494201201536366104577221001200820341790558047401201077099875304836901000408895074131207405201403812680728303801000408895074131207403201380288525789646801000408895074131207401000804239355175455601000778216585123014603000707361663570319501000778216585123014601201535520580163767801201078879996017546501001112695783128035701200087929276645675201200511837863602829901000308466184007134701200970354874430179601000196069842177589701001463312631067274201201819483800141930601203157581341884740401000119701860460081401200879924303794867901000171231342480375301000633248826504057101200294694404439202201001758020696615912601201725094052438188601000493923143015224501000874586303993147301200067515630963399601200501580143468087201200041109600944935501202075765264831232801001267920012629060401001166789361946360401200693817283868108601000526854322270389401000024641044598189601000224204252780555001200474242791578547801000269597523335727001001516677640573372401002439328383105298601001893204526690184401001705414752825258801201834763263451683201001167889203353258701200535051244546480301200321307522505255501200355315142792969901001169618691644035101202163826465731089601000132241812326222701200231934390338176701000228484060761622301200985589515461753501200709751551985227501000623034494229113102",
    "03164327204265942064000003850961511666301200128781164477119001001703395531909136801001343510596101441401200233341460316122301001415606195495602401200797633535332723101000254971872567744201202213893425597697601200216956262020116801200568447934922597701004095325520455667202000173622942713090301000062244532131243001200172849203401850301201485753150655558001201350799523363146601001486881973785472201200767744793583619201200259982426496466601000603027820347263301202407130092769258801000443659124771569801200424830134205232301200889736784392257001200721501954653359401000540647713747463801000931164950529827601000344372483629663101201140624002615915401000113532476003943101200503755843258734501002460400106171520801000071129063898701101201082092570443230701002116639076203153801201032696090446479001201064649511884704901001472287105863968401200026582314616412801201525719652851106401000861501172678218601201606793194733366201200138045016370267601200132617535197956201200175481656263388901000668612164288187401200168621181097215101000200603671932416301200778982213221107501001373050122705955001001076986825914911901000815535675549073601000688409044314514401201611488974710832601200030713420034574901200292020885516420601200539373710561486501200713727735006776901200498146295842858601000901860963413836201000820573832172855801201511270295616966001201733970632624884201",
    "25605584113064061886200815302703996124201000414187344899384501000881219436537984901000301974511433727401002185238191798542401200481101254779754501001090966534210796101000645597311051918401000040175935929167801201349119960264606601200184965121973341901200856043906017357501001770493704597171801000691096445382784501001172545145152363701202293297862995644801000618021032510735201001051055152929785001000282614480552310401000188920551092585501202672325713048641001201811041363951681601000324562765328333201200834274094880333501200884120366234688401001628491241815316001000207750534547276101002053293732587413401001473719095557880001001733736084363725201200050228261439648301200595681034032065601200705944650434880001200198042290004957501201037895131710629201201038542750784016001201491392264363336401200676325313267231701002784231526413766801001148831582213896801201151494370388532601001324205235012817501200854055950856993701001011658700886013501001306717103026149601000391749403749134301200618245012462208201001199360333424674001200220929915027250501002217281475354220201001094417203530667901201503385995330162401201162205333516475901000361826412784665801000021669151419431301000218511164625434001200210229830994541501000765941990497214601201785953495283779401000210339890760735701200364373865726249301000945512775998940001200323500434295558201000616002040267803501",
    "07250042322348254248200682535164874950901000224389166059409401000191425433264855201201838578440060562801000674996202798249901000202791266380353601000976763364527453501002457537530306808401000742938490839982101000352672283321973301201793653181709833201200294368023359432901000860160762416650101200476497405222450601200454077765143433001200473217745461305801000204723640808468601000456876700301432601000915217906098144901000837060851185087501201583063030608195801200966281664461534601001617648282285626601001249516693685489501000698690674101998701000048116061436255201200926286021510515001202020398505278362001000298956490731109501200653675370365920001201291485590689418801001940462756484776201001004334236665306401200034318376347516301001159743121482591603200066521852282069001001159743121482591601200832149181100863601200587675881779873501000652572191273297001001262343033773495101000321697322873634401201805473405039477401000993724990716996301200596338905557161601001041179484299030101201452725353480705401201392731571816698601202139472804519854401001523264116498624601203381642572494495201000030823282682603401200021518806173294201201294727802015597001200208732795742331401200425536081323316701200023051372838849401001884402212525779401200818134725299914401002018878000865145201201231576462097495401001461453041461307401200853394103250902701200616113484701162001",
    "11673257132161146023200218665502242576501001544920570992605801000576323782328280001000028183693128581301201956099494945043201201085779163320604001000236488662574254301000829060966638527901200832578794354279901000621741740895788801200789102280500243601001524181112767750601000136692734423016401200215417084574940501201273018760284458701201809604362939889801000585608524761342901002472517953778299801201377116290960220601000079425832969412701000239025483671536301202304795020569662601000851745323747035801200662349666560206301001043247022858956401200453759685129834302202386913891870909401000986617170425747901200240123973603409901201703504484504810801200210323550256591101000008381882662742001201613665314942000401000730746005961524401000863008962226924701200320009144300674001200168336156189750701001484799474089396401200660509911706000901200282590963975840901202335406283781480601200871071596162910701200888609753196463501200089977203287905101001069143625645129401000448673583985809701000416175603980658001002096183800563173201000833008805457907301001824420370789650201200388964733380427201200527308400617073101201063689471161354101200085953276235980901000334452496487588701002321704303488531601001717225913333185601200304176013340438301000603202055529570601201179446416210550201201441673811766005201201535692270320341601001499377236708434601201378736816027734001",
    "13313198394844864197200717727925957483901200809349014602701501200841552554047328401000762712181450573801200689504412821348101000443518673585168601201502533203976652001201370160033020536001001425778175502383401201213799993778702601200077139281450620701000010230591223875101200167725514168703801002046806121395076601001182469793429844501200956860241510072101000807997280061150201000613336340609237901200926643491507321501200988671325149456001000008814434548917401000835135594622254601200027101592334775601202285821306191641401000247496243231233901200112281093822093201001907973455475862201000682616851992809401201996902252719139601201634831092414774001000614692303006322001000007162455688906201002247317915433504601001990022013704588201001245401482730606101200074444035504207301200177746192727012201000172744700678594301200751047336171987301002645748385548408601000152592224537337201000372709005245818701000723234363081968401000322403411258713401200992748363536322601002605389493881155601201680673302359365601002741314612842676401000612284761144244901001332700811521707901201211063422018092301200549902201947722501201068118994157935901000242640086098689301002137359471694364801201329180800184200801000614430025813729801000872573515634136501001457411384426310603000486970493598199401001457411384426310601000138816845688621301201402185930479435001000921422555975533801",
    "30640618865730722670200675493583434254501201364619956393406201201075574403276053501200119588626020452301001791435734099528401202394029185187882201001672064885420386801200267205891350461201200189825455902062601200188358281646884101001641593704974333401200017077795118701101000820858510074314401202235984265480171001201887091023019445601000905687683819101201201922999240815227201200144370990232841201000635644455612517401201440745542610094401200231486260086351501202398204501223342001000676469831279096601000044201581945536901201075484914505345101001355038274421414801201173229666146486501200372039781728356401002692315146227136001002781602663163533601000688808112575670401001006414952661605701001976811722752329601000432977264940440301004299270455717527201200645762571596848801001004990523680979301000421717822800175501000000942001926931901000217199363889291701200058705166639921301201340438756342347601000391896042048970701000294612445262929101000455787530967142901200337062314131245501200159955300825479301201058352095709301901201421140220593894601200331259301812578301200843320250870601801002219338936391412801000839200071913276901201468564755303216801000419161353309210901000756113180418160501200626218794067997001200598993621935065801200524121670295190201202158974811255164601200256024736452598401000722489981119391701001072669762753342501001924424030406888201",
    "12628308200411643061200607276041882860701000821175683694309501200112507050349805301000711901885988808401202135504796700104201200111693955843080701200634948274591605301000372685922246156001201067683443860725201000856979640530398701201315303384803091901200350507406095630801201715771505600003601000770400206140983501200006590010669832501200438431771523931101200687421005621070201000570103510453590603000930303422452590901000570103510453590601202356059953498674801202726172770268998801001861257920715425601002343140663988626001200654188373012537801202365506235009857401202053846594507187201200817673032242432101000272247041403647601200395826584170558801200187795896124886301200780144311631196701000790489123408918401203352651613942446801002238348680280295001202235851881154228201201948023474104927001000461230786690045001001034948093971448801001356931541316481601000104166126075018301201028792622780775601200111283623401811701001432067156548579801001387333120788290601201433753341124993801000951083711298636801000201232740055139201200350365061582051901200888672602966849001201178100316378531601200070149281088468701201263408764925747701000212658712599685301200851094464093914101200135375541688309201000346352013738683601002082140113341493801001051086190835215401200602718081071283801002545022271171983201200026796196296467401201170115551058723601000477684240457448501",
    "21611460230725004232000192238835770670503000828645970118941701000192238835770670501000616529991631394401201647510904541016201200707948670439142601200303634155186514701001059123900053276001200033653725154034401200385193792542159101000849691153299637501200786098234097371401001540668174001775601200782472370633024301002751971575553742001000250274325774887701202318138071368202201000090681475324188301200087138306417164501200697937563526220401200824696881500504501000592843701940501101000547876881744730801200427534224945731901001109126453209709801200840059302611927601001442263614678141601001164611511511004301000375720754628532201200188001303716103501001684175362908588801001270940682870540101002078603243774852401000087173266450580201201141956101046085301002826977395930650801200188433016134526601201042073751084025701202452489271574213601200526084823905904901001221766641289867101001802489025038576401201550615921740970601200244311450860640601200358657593916039301002896463284493395201002313621601398369401000239657032221033501200101871855009019101200110098024560041501200490037021395887201200887569394877939801201515468970665848401200794598652426559801200774842850629833001001318475285621214501200390063782454243701202510362741999229001201750430952719550801000361300333467623101200495843564682127701200040203625853442801201388740906238658201001694651693648114601",
    "18448438871167325713000522565143245168701201800801532426522801000739169766261649101002491271176280806001201615784661785925601200309489424087947801003062650050960506801002258212912859227601000701255762175210501000239166484084605101200009229083350496201200553366242965501901000731901830385091101200069784182977634601201275438294559047001200551700530647880601202039174540961716401000769644163677762801002113662375882301801200378548052410671401201029553750284167101201903356201853498401000426978980157218001001489915783352932401000498030914272139301200817062976055518001002226031662041906001200560831651440321501200072787161714191601000864834915008805601001073081364690872201200029215686470665601203126546945103458001201405408700432150601003045023244017924401000063892291792698901000832396801294690201001825179506456770601200904641726482232401200223889624391436601200712714292921404401000369009335096602801000534301231661018701000222680133447551401000975301975781706001000964847892011727901201159479670901681601200097690614358249801201062101314650371101000859235584440600101201662160024588690401201970181615544759001001134590481674392001001982767541921661601000802949313275474701200872578964747218401202788428692122214801201789972774743518601002242029294028719601200670426641734462601201818325436014687601202213617965599721201000496835050730143001200761039332107012301",
    "15130063023382551124001352436270033061401200347602382395420801201175917523607009601000816489163175685501201670723394553395801000097464535791733301001522793972347580801001062276510794390901200532512133502829701200794573680639486501000612531764615471301001659244642083738601200572563945927137601203431841423014641202200380477391770473801001086567613705682001002352254933240443001200134878742707363801001032727374520100701201146127756436104001200127672230946392801201470339274778722801000195476573237819501200017059193214234401001290009634160402701000742316650502464101200006318910657786301000550618931204346101201330627632662544601200426956795049555101200157695386241775501200691634704237683201000962073641493304201200527580055690289101200984030001632622101200470240280467848001000848456630035151801201269091861018319501000083593475208960701200072476281389812101000536807171786546601000913157495380960101200378559153761493403001486537005532429201200378559153761493401000758003922226703901000095254395722942201001001189074778595801000257473901935984101000469157401765162701000601986736697680301000536703651495736001000292621942311386501201599577533543021201000266729375747884503200362684414451747201000266729375747884501201069906621069446601000851468510584902501201461972625211408001203323441005632786801200960397955747434201000705607695914113001000125902666047060801",
    "11550127776455117127000691303415947542301200413221916064774401200734400592567816901001353986261179528801200369079196522486601200825638414347306201002938297344531231601202608379896467548001201363131234742821801201577639545576304001201673660853463668401200634249246435186301000014097873053302901000324177624972604401200933757124852254901200668902025876114501202051505343004820401000878757584089069101200188580600687348501200811978452081667201202029523874696009801001121289213969137901201287385751512449801200014991033882257101001533433495903093801001005699290649230201001337083451583698101000148884064998512401002204888172680082801201138959195802487501201429897871054761801000290104710271390901001323454932997337201200522437165657730201000084473674025574901201805590563591902401001142549714018609701000433136503105559101000358637892777011201001256935366674134901001448541845844768001200688002424660872501202859323042611508001200020186182536046101201415904142895247201202116733694879979801201087921476327245301201091823430065847501201084240393794527001201054239140762796601001176470481184664201200977542931511446001000172335125936583301001385214706488540401200729651675804900002001927664522194761001000775374671166630601202639182035369989801000135880975300036301000622671392273735301000230781560142009101200373168991144594701000519028783113662201200039905573821610801",
    "04116430615335709367000078892462425791401001890498911858919001201051261352411971501200196289455039992901201126943952340869301201129498324008623901000786068242317945801000968305764514787301200145000265057254801000888714941015948301000059852960767779901000518440363472767201200325644564803848601201562519170357538001000697425205795609301001276238771770324001201396951431624630401200721522601656175501000035133035563148901000271001881484191101200139451964976919901200269277090396147101000575987364073411101200038838711277721001000783060452621906401200811734300390915101201010853744404564601000409896052611102901000755380425045141101200225583221771068601001976171333703417801201145914923728558701200230135623898499401000927210752598799901000648632826560868001200160770962317771601200806905302799055701001169809424813311601200046912226559536601201047510004745070701200976186302072909801200483200991182521401000984911403839022801200202101551467098601200163737123295600301000983334314610606001001058351493507441701200439491232301395201201840206192953284801200004817606653956301000621664786595037501000954261390561703401001382223671356037401000519527601779998301001068435834873974901001227308250809204101000953109343145436301200415795504553834901002174050520642023801000726954540328013601202005013850748460001001799565822024600601000212087640913727101000597517391273947001",
    "05106442571262830820000627052365071450601000980988422119749501200136449912892137001200100377863983049402200592394362481028501001851511460688694801200680956835921722401001582518173628410201200036325990176343801000534018644883237301201811753992818647601000231784491595599501001709728455613212001000144926374095419501201486551304619430201000464511042455005801000378692151411737001201789473514861275001000582562522894813803000195328663058612801000582562522894813801201833136252676176401001780360423540285601000880011476303475301200234959410770200101200613890076258530301000509335985945264201200143822802122723101000421828941363143001001620029891261590401201194693315452386901200131278364692508501001087031083827038501200108089542358487501000006733953658102601200503056430579634401200726696256296826001001440103691747060801000920007665336303301202787334464022782401000492181324534751901200621048843235016401001299563892004365601001120329900402564901201619141482397310201200649373543356231201202217755740858800401001552728585122469601000494123090351766301001907181280250845001002402559035384644401000196670036335263801001169167642661607301002727414981968978801000301601265976812701000754755042227543901000637109054827132401000048556645886615401200072755562631759101200701693683203866101200153354065227420501200595055464337189901001840036142591110801200515104214338917201",
    "28867291244954026988000813726703214874201000891561813015984901201944732042490194601201381310653238881601000171922252554851701000926855960222990001000062389640524531701200353161183115484003000988904895464918201200353161183115484001000204985785897081201000152059355200266101201428785101082625401001080402466354037401000179613823570370202200354522115547730401201232355105283671601001773198535513203601000453498960457461401000644051872330951301201963635244053038401200975917121422366501000151171194877475301001285947430984742501000817493713658800701003107488516264613201000996018664727397801000185668543015491501200400991172451021001201591936354625339001000075774790036822601000146033950716363301000815171342203947601200639648825166435601000838505774488215001000299589272654711101002500618304310268201201265118235459249601200306175474073301001002571925651252764801200761077880682153701000409437866378523201201646713506207277401000835161016681768301200042734831487141501200828159384529521001001611804063264902601200103589244684562201201208746733263853901000035028680519062101000141080404626620601200774319285163322901001415938581216684401202860046854839081201200394795024414135601200570892323775162301201401114656702914001000174054400116857401200548876234506125901201113231290298991901201378729423346364201203028052674134841201002252308410212882801201970482463878715601",
    "21575111615683005546000624139763573822901001687939144008392201000036454314828283201200485526095498267201000319128333272299501200200503645586461401000789309330064978801000424035615713625901200239154633122309901001706943595791533601001158237420853094801000996199694101597301200814742344200334001001343614841485660601002434191775973284401001121797090728760901202296730134391473201200403559706658935101001454886053625663601200905084325845728201000372819811767736401001166156451805404001200635881532381149001000919846506385875301200819219264723286001201402283391581503601000213425875056982401200013238705442986301000196012015096082201201291380715125348401002312232052027874801000401438244173900001200777454032805174601003207899763799911601200801794432775444901000189267552939376801200640309923546987001000416711503173611601200709694622212867801000395255234986187101202087281480031282401000638007872468575401000219441366385425101001107141551618672101200245656803682263001200485771190459616601000364254475806085201200158079994587451901000424818921728047801202051322620251413801000583984086595931901200796245275182826801000261426821096377301003420621306138898001201106336730154379301201081929115814177201000934382372016922301000345276052260868201000940994512786370901000132419013316532001001165890426027533403201631217021365078801001165890426027533401001267679263607051101",
    "28433331464543553804000503810355378727003201681537715694524801000503810355378727001201489082404917493001001453322025026438401002404046240236773001001271791270273564301000063647784543214501000050855825436648901201299029825859382801000083017345921050401000943600043506839501200790815196559656301001285103726394511601000934804253852845001001094819521044584401200544813700273736901000034948402296565901000162282376067003201000039860961482654701200090890242791809501200894736470955543001001118340915210079001201487125746405588401201110196055350800101001403157780522091201000033780406641165001000587022240829482301201361813363406866201200522746864157759501000556852104950138801000912681993182452001001063340185923984201200103852771246058101000626235170428323501000509472366555530901000131955210359824601200633493520061730301200133887095008413901002584612466234811801001479243850591999801201334708380511426101200742939592166425601201786847394015742201001547968921602560601000603852185885021901000545121671262856601000491029594814839701001566991294456652401200093929703979491001200857647980553752701200131554615951988201200064270111869108801002033454720781243801201634421892226296001000935595746341000101200877776636586141001001131402120858167603202722758716323153601001131402120858167601200180721456320092502001169160915574794201000742372923564533401001668693235612453801",
    "29560228422067145472201107978642714348301201388766781886091801201950336262767107401000042922065147760701000506275032440546901002548582925713037001001019972472896187601200387295292864219701000968461265506406101003207867386181920401201841338520362453201000410424955445145401200166654860390853801201405600412434656601000944048254741280901001617982846593599601001716848796386413601201839942970528220801200803263743775319301001496911446126353802200460270512723982001000173398660270138001200744488466376458401001014810896544552201200768986703796035001000264289072617145501201666314092494801401200485916153210246501202245963855505054601000020429413753045001200767396595517273901201282700752823978601000583723131888213201000181005942047854601000990368372661878801201913055592621842401001047956032884398101201403862936605236601201051487781955090001001042117976219348701000913420702455532301000561105200701507401000838678852765102501201166245955741092901200515784131797066801000189318343684182601200419290544181666801002739433005812487201201564661881490501201200079442015766522701001355816123457785601200400864611625904701001794925544312996001201484966474300731401000548100021949165701201818796642564653601001787000012981522201201869041465264487801203016307515232584002000976398963333099701001072046074719186201003017486101536873601202258824643459332801200730645362887075501",
    "25178571536153324865000899976545465065003000187576120174791201000899976545465065001201179925192570693801000109486114142503301000001850404006824401002165057603149188401201561650410578903401000488267156167792301000576149185585147001000811952212613754601001283846562784310801200650255392641136501202374990161219870401000039270861568219901201362676523573188001200217873800161625901000492765581332358701200737284144075493401001508771615639127801000711905251201014101200314329441326329801201154334280166987001202614536743441222001201234693452058197001000946557431300963901203061949845370575201000380908332337619901000848788034346373101001574404613815491801001000777401808655901000365406266445629801000855957044953436701201107881841901460501000966584086081919901000118227550723929301200537274776535503601201740697402628443801201178137012197291701000681837874129221401001009155111267728801001059605873134786301201396970042149433201201382052822621486201001381783553422981601200190129383809062901200455397185601120101000251815792870989901201286531625290003401200293130162175924301200663012501832505001200708889282203946601002036339510014243001200413486800983777101200228829302393385101200407409251345080501000492717646641238701000168107522885372401001795472970763211401201369468472638698601201153991376537475601001580598453031074401200313651182997092701201752548082621120001",
    "13255056714021808441202015237142624159001002097910042170700001201009958444467578301001688389133116445401001790562990271333401201376624820753630801201797373293040378401201486074475016619601201706435224671315801200566184533359066301000580059263488538301200308169076167887601000259964126552514101201446594160387642801200720667660168848601000139361896690705901200905568052278122001001101057935941204401201467599225293901201200563677470216840401001015750020323312001000402255921828814601001262479522837617501200260873233073189001000001170005409235301000157500904019537301000513169836033425601200425381982136782601002581410576664601601002239855444823930201000063801981400350801000744178121948590501200164162831452166101201090597554537748001200558952693315788101200223466032360466201200154376424733689301202592004924927873401000917427684193274201200734760495977556801200499050101280618901200873473840547586903000376790344414559201200873473840547586901001394239343958675401201013337522021438401200600353175614069901001662203724671734801000321845034298363801001581286364978542801000023410701952432501001242796713933887301002512718673445720201000895934931165637101000195314674239079701200408236122323691001000822700026009249901200744122260759133301000255681325856742601201238302280975497901001100175146079736101001422894243265385201000171104561916872801000289576705129032001",
    "20671454721601550628000636125530538025101000907694025219564301001691730245579275201200978512753982977701001983313783093811401000150702716592088701201646171960137608401000196245270605567801002915049862512182401001931340966188838401000561514376427184401200745527294118228001200689683386703696501000301694663485301301001265474804393078401000481350544681039401200595155681053775901000298347963905972201000728087903939411801000669263732557696901202012231754638541601200245063834468151001000597135334216062501000043633474036203901000487950754585310001200457433685496331101201716584116225669801201012299803507821701001596720503841479201200329382594354756701001373364190171549201001273772742843948901200805043991938385401001930052242276966001200406462660853672801201982567065504581601000029227383522148001200305916094195765501000766560465222645301200618412904950243601000668670373522820101201092347064672419301201413843234614039601000828492633885275901001660715724662696401200021694832847177101001315120425671840801200466367442510626101200442991736481617101200604664781090382101200658696624940986101000189626803863881001200398096582605354601002112656510634780601000865804151994923701001924746202372921801202255759761810058201200436580806000287601002025763460497954201200051437700061953801000269159324325742701000247053754965586101201799261010079459001201491888872278219601",
    "07439476991325505671201785128604413240001200055601690786505701000698568391870820501200588992871776604101200166124881019419601000132141504338260801200039656505859534201000191231031311987801000510795662827056401000101114401989779301202795145660091417201001073439355664479001200517263282793355701002425708024149953201000812045112219447901200506773520898130501001255306206570383401002382798661947712601001058801304965140101204643757553425521603000013888905209284201001922069465640391801200111088372750056801000302349790670603101000201702710262571601201338759040246329901201593596615895351201200247167082747645001201486657562832961401201088963242089749001200036897306046360001001008445754419422801001897927883249971201001268671264902125701200076840175375340401201958355555522043001001162416544622702901001296590303538246201200611903495125101701200218210754462332701200756896176289975701000305105445336187701001012367623719013401201339884871543289201001595603545352250201001900906625362910201001485511522270071801200542821673696735601200058507500999869701002021281151380500601002411097595813892401201482412483462878401000393143164162834901000497607170487823101000307704500429507001001555304184765865401201315807390133080301201271849721481628801000421284513913116501001099021796528583801000164042732406514001201653848174787706401001427377833798584801003046694062855691201",
    "08761623545448210519200699162334196136501002088467485864724801001801790996636874001002170667430122746001200533001091156644701201148498413400804701001358039444114235401000886467524556107301201088897430961461301201062877230401334601200124469661667126401001347178056197597803000548352543816053201001347178056197597801000268556591930520701202385644714411039201202643643661093107401201330684555072805601001199430200271652201202463972643897664601000126602184316468801200512392475683082801000876738991463682401000269843251479796401000621883623196528801000761551306307940701000257217435175473101000516054665877942101000701817691141792001000817977303398608401200237995503894675501200889033501039118301000900932152008547801201316959675617589901201415972332806232601201987873221048814201001758265901776678001000208013956324703201001204437896360412701201522030352693107601202170974423413623201000072357526649611001000937269655770462301200387384985788536001002265017536029932801200291973466297385601000718624443973964301000846692741532727301202298449345935259801001850287846000711801000459709983301229201201193649715485297801000722887872442847101000232280693950949301001115262633721925601000009963233033138101000281302416395389901200016540615103810401000347227290335569101002831522923586495201201499850825054446401200265483355239107001001678168946106784001200776023865929484001",
    "05801520866376702824203287982114621517201200833262580078413601201209374666236538601000827902533041300001201126145513322531001201602588731823489001200527746971890221201000985288696231615301000033566514809685301001770559421839543801001980687880542283001000766345676328347901002644765602281871001000131912010199495001201429913411455624801201839280971844146201200461594543932758001200617938045970747601200083464505027868901000543941960286215201000013912993800050501201829066694843074201200917744545616514201201041486030574691101200422257853679305501201395571152197282601002095260580529927201201248654102382193801201434688293157093201201265367330838603301001104937251142336801001210781574100767001001467256491368211601201035777173450232601200389507374094593901001422909884041066601200459776482517283501201078493374089716601000407659755237472503201051633290584100301000407659755237472501200605494324800926801200259498211596501301200332065305468417101200102067006081523001001790241005390021401200501867542840749501200863497125940011201003645150413732981201200760057063851474301200118792432753895601200460352803928233101000046500530985275501003873617000548388401001181718422424372301200411910153975446801000603204514165178401002391601640238226401002043939886138830401201810574544058927201201447372114271782601200724673676273920101200503683615492915201000198960922748926501",
    "18309231300580152086200905216943315529301200758551781491944801200774815004561296301000081810141842893201000681724474588468401201094040506219322201000190205334126299701201560149814006438601000608396031717201701200117503415028780201000490771871568839201000004447621336016301200015981823741379003000994410054570040401200015981823741379001001887115526332028001200598798050106224001201987301501938061801000445584212445914901000791211455209215901000682723556566607101201348644936692612401200761994894942337501200802397605619654801200547873881019341201201190018556149781501200450133995095610501000215263580676956601000962729710890870201200212359505229543701001955648251778393001002970009560804359201000602215684636296901000366462010149966401200065247596683121101200695271065163843301000901790251891307701200852661810104844901000465934911865867601001566749350468351601200120586522557785801000314434910588858801000621123262804644101200514181052490180101200799722794689520501002706869494914664401000192759586129839601200416491334892033701000834478645304458901200581086372758052201200297482640284492501001588325200950220401200256587861189680201003408733450345904801001537451015270889401000621751696283081201000037782795970500201201345068314296660201002279899155215160201000956674521967290201201895865441023111401200115562110895133301200767404361851175701000000399345859178601",
    "09065482073500513058002752138492330128401000562889265043680401201115835085456003301201193571224224310801201097717204416797801000416363566683720001000645570924832139601000172460634610954401000105827853747465601200164078202300211501200277877784591260901000080100123611679401000092668294199188601200408555805347372101001054716394548658701201271250950722900201000509971444282267601001164596123624724301001435699586078194201000758555876417532801200069875366278094201202616452794035508801200014873820371576901000931723935958157101200845909110963208501002587215954843675801000310203266195782201200928739551486657701200238172760132640701000956172732025432401000341698385462400501000745355121618579601001675299386497256801201366154581317622601201055488904409274001200752319153214662501200115837256190654101200007533936202196401200960331964222196201201032720350015720201200261788084278622601200039686921883958701200705537725343359901001185010972213950001201891021492208223201200199919621296188901201259805955398683901000340297652138188401000249748894258629901001213909831741700701202147711831835328801001614542250249194801000367839765253263401000020294484588169301000022192693469367401002392945705438039201200135941930653748601000066068361019713701000045326846005140301200792428643014948401201204185105070176001001557534555041957601001006299103397343901200918237210253894401",
    "00413241624197902547000442295864625052601001431014151414908201000361185715524545901200046871005849949201003892500303438400401000498695601239791701200725103614973506501203029837750809988801200304271592515219101001346396763126537401200050267514284669901201452580016355865201202218580965521674801200793823824294678201201506997951975741801000368087133991986501000762985971104986801202299975413819875001201178517025090682801000864358490087802501202496932295919602001200174228600077818201000730888061336494501200775066255750157501001382544891579396201200059260141199523401200641834666394763901000349307692644717201200401327212702068901200084887172368159501201219564215706628801001082358001367929301200795846884987977401000848602592337909701200870245370613657601000398336356587318401201927654871829790401001381268503995533601200522100073612572601200069863365349489601000324118783569456601200125080256526130501201171240612667444901000083763044819624901200325628856087031501200087949162631306301000442977094442096101000841385702198541901200697916420062292701201214723202863209501002882434642940826001201415876255611468401000740744020088825901200647303535551769101200034216821164016201200361512822209419501200917438120218427101201560587363154810801001830857286495678201203740439595896709201001783442010770923801200277862646654463001000402045586631967601000298501782764818001",
    "13439395700906548207200879031311603327001001056438523221128001200606063343415936501000539151805151526501200409929700021064701000884169714371935001000245657342494072801201243810661127177501000394129124548102601201366736113111665401200770608205239475801001366869581576715801000585691270315266001201180397660496386601202656391175632976801201329132253966400401200192900775817775601000420766153881823701000403492655192170001001385175296477839401000916423375396232301000236365692674304401000419075311659347401000074826600958278201001999032972410201001200415147762288303701000311973184239968001200128931541399962401000021055771421455501200697968912474427801003018511251747900401000696710166277851601201259017786698659001000487709000483250801000650087502646205801000723084300187747901000817698560638357001000887458342188809201200243485112583045101200013659121311163701200747823345050807101200974775643600528801200608187032467729301201095285521462189601001339032453308432701201278694462789019301201121558180501889001200151257452926183401001739653471657954601200335296495536295801001138905632461974301002260299073520990401201404099602343175801001202995994286468601200733906465105093501200825060465286654901200077150192881353101201967125066708065001202048660714186300801000921472062616033501201543804084037267201002093848960558430601000971993003912819601202104232636275927801",
    "08719221921062144558200101020885875427901201027090104200521101000192034534193981601001318829474069737301000942251832076457601000669130126201988301201280753950899068901001313238701044461501000913583593442629901200412562752175126501200584769670419300501201511900636281249201201037218084006639701200555060816274261301201726307344177454401000098473075492054901002230399942097679001200068708714904066101201371721770228615401000979602610604778201201576276262625041401200571488444622525001202143131581301800001200015266485666591301203719276643186530401200710029983245026701001090205743799832501200234217235529927201002441787275490339201200533656461947780301000348271831929147401001919396974710344001000152616790986613601202457819991138755601201115012814644399901200193227911571005001001710893730210515201001221949622595621101201133015356263194201000165616364623809801200969160631859043502202101442062949421201202949126051246330401200278163102619141101203078771380810953201200138985430732191601001653134164702253201202542683644285793001002197187843215303401200491492660760860101201616563183055347801202351457331527371201200179041843596488201001982105000995484201000127138684401255301202702028473124667601201232605623608141601000730660330572092803200607417133651247901000730660330572092801200610964585430286601002345549941441324401201609120586425662601000068459185187884901",
    "26580580884267112160001270509584067769801000419067436076768901201445740300021237001200860174581218962001000689891736468881301200752198490634347501000765821954776355701200351362773188235201200570293166631281501201476237352517165001200439174685301644901201415816044915464001200534533212132730501202205754900633153801001403938471767840001201608162716388875201201524618862117491601200039953243783133401200140739112499352401000253720202135206401200526329976251632301201380666050174777001000148996105208738302000311817383717158201001958118235056401801202092957001861500001200312834894443491001200150338816496290301000469868565158380501200292110675675887401000154374211594006901200550183055535619201000380809825218571301000756657242701486801200499907274145851301201805794783780970201200371356633283691501201294419805701517601200115970074981133401201862359192110956401001455179062139130201000393001976673563801200965564592607406401202724026312121178801201577930163979495001201171668760558109601000954527380547705001002202267700409095801000805034592956009701201518568403818676601001635365743897549001000108441571970840601000792357231543863501001175811550458834501201524179813275540201000710719233087905701001529853111795203001000850077904978417401200661786241640352401202242819020682706201200440288270955591801000853831111372149801001653326670577805401201573361752333174201",
    "15967341673272559209202228900066077942801000700589172351477401200335536883080943801201548394951950728001000840765823589006601200532453644590809601200691158604287719201200988498035625954501001306297696392152701200256529665389688801000474880070561175401201886382554631253401002007100500785662201001119949212352053301000690809872244256401200333932921346016801001406672263680387401200756934295355879301000731970711113923201200180202492097226701201661704944598593601000849063982093217001002625711642355086001002350737572273891001201324622932791409601200466453900402984801000726068514307970601001241624964331428301000034393461222529401201070090675198447101200933020262965059601200435908521880616501200459203036220174601201387422260103030001202233502422341106801202488921104454463601202235680351796078201200106334076168859101000018317324008767601000854049992614255101201501878972621625001200198354551128660701200617626524042510301201950409594485067201201338803825542086401200813131833998094501001362563502206957401201356460003285921801200808124240187477701000060793594910923601200861811430293989401000923869405349278501201871089056150498201000793628663029049801000518975381280965501000493388605075247701002037340984156842201000549679330069694901000182849965007818101000473382336600825201001551971250661325401203083353925399833201000603422030785049601000079302523237594501",
    "15965002303835657906000835261792546576001200718918083692725501200401560615858238701202547629815984756401201057865744436625203200652702425406736901201057865744436625201201917738041766364001200440762681989205601001365557295688658801000562391461503044901202114447552504677001200362648021611250501000600830623836389701001711921833859520601201221152900569201201200975557710612185901001734034390694474401000257078666298531701001266968203079125401000474030595350745501000040390493502286601200203262764967195101200454992706176649301201916190181920600601201050717803207257001002363814824027057201200239358512162249101002072344695613035401000706139334064665801200088776692863643901201300050863374048301000558432272037706101200016618410338921601201150568890081557101000401189981740670801200543719351627066901000118575695307143401200429353842136900701001211633571893492801000234814542857872701201062038295075952501200281220364500608301000332909975778672401000659106196123414001000381028664537049501201280728371486750301001314118005229304201000345171173838548301201216330703873194101001207222743073764301202119772704019254401201207124390999454102201609989391275721201200776908841673610001201861773520041399201001534717164333866401001917222500346774001200680474521546925201201670353804670832001000922649094237736801000028259085025920801001013766461262495701201117137632796000201",
    "10204361824398357791000946892081997611401203152410404879887201201552800573224144001000978309260811273401200688202515893093101000936241334157408601000269466706044000401000667854304656373401200034298762540889901001872795053282316401000649481240298066501201148883534790859701200154069500691007001200977719145761679101000193805652277615501201085885654249903701000230406482181831601200600701394093713401200068082801012735501001126734245257586601001976061716562623801200407234000350127101201821558363095212801002443163985595817201200078530521128339301000009733074097847901000303805312376840301200040575046028891901000040653493367526301000787656714107148101001057043480096918201201685492004505088001200651451092625523401200170365184586815201200506988575253892201201466801686481812001200944235184985913901200948268384794587301000904631841630884101200469282712325443901001437840542998777801201647235260258318401001425679940001175801001205926895271222901000962797415621886601200202520804404217901000181025141501726001002668318981988905801001636154100317762601200061299190646281101000335065744871128301201579748111705534401000620166092339215801201503925004179605801200851442206384276301000728799051091488301000110103546089104601200446648766118141101001475546733824489401200190038640945843801000510185022601438401000488853031618802801000504646101327204901001434539824833297801",
    "25334365634603610464000255014965418043001000499071554763667701200324807443618825701001078617231237033901200343370613713659001000137236255655302401200125068763328687601000906842962884971001200463354505468500901000469399133623887301200512520024094603401201311197190622482401000079905276060594101201073967234163386401201496004105298258001200426163375625984401000792774276612506601000254304872384621201200967989015479284101201360323763916353801001164456080683327301202440209995074788801201539446342600866201001404701614789386801201466808681060656801000337815045374976901201671109035643347601002327673506683279801200898281001773160201000299522350757184501200974714591451081201201929070884235371801200233646732980407301200186088243255263601001173662615604120001201165083143839597901000269498373725837801200367939561340959301200836876584737789901200813648261301204901001303085451986428101000146293221102829401000382071111259832501200595891552163030201200667653770634179301202062206636343810401000416300473427230801001214796740798057203000568957464301126001001214796740798057201000092052190034281701201824997481663808601200763566280420821901201298885492866102901000084163316703415401200593021532889119201001305746032781424701201055947633333804401201743566425098095201000840886081020082501001697300174167885801200194705155061532901201982516796297478801001032848433841810601",
    "03038016681158362739201377443526615855601001019682105546500401201924487296497159001000312979156105686301001103698253114664501000631883062164872401000543669352984032401201543464951804437201201072869303944109301200055783833236089801200752798673460521601202267886663881512801001240111450966147501001373123111937058201000069471640398970801200782776664622515501001256702552857440001002120842870983168801002199127870130434601200170694984264331801000047982036301635701202020256702367061001001852434690419749801000340557596469052401002291563771863865801001311318745474936601200792127561177390401200888364812471442901000820201756133469401201017839893275591701200113203124756806501200226364220958683301201209519974664124501000753293223119440701200230122415358932801200212240841788647401000431754823686811701200408524231629836201000041233175844350001200458909365094757501200473771970339388901200111725296452474701200769634746233610801000155496505170550201200607320306638790501201939586744930833001200586355941324851601000057898273307622401001284821513673168401001754600541137952001201481797520531644601000008028381894541601200602512411085425901002031656660824771001201187901461692088601201457973053055490201200856610182981790901200884679075131121101200682074303485362801000835301694301917401201206713513013416801202060521611820524001001371322870541280601202445339325501262001",
    "26834529124820300948200995719054744135101201709330091104837601001855518954108407001200373901795710314601201008068062312121301200578154571046972101001018761393312413501200910873491382108801200128000724840165501202160306353136868401000972461914747775701200776703866005457201001090393665672856201001343712962554018001200531029081593784401000220512883226186601000283342466009420301000007100084211860501200602186864853982101200603324713785055601001633306370227671601201579706660356853001202380474561274315801000773475174635457901000667799424602446801200188285386585947801200286893554836196301200940570082025212001200490269813662853401002078078900089370801000983138313613553101201642377814133370601201557613992230773201200268860200033962001000261868372665483101000662899385990499801200279913526060861701200974617866311338001001472617215827840201201584759383015392201200218101114958059901200619909590845666301200814462891172072701201983860700617707001201568073193542089801200266655455422938001200928631222638565301000753436893073105401200661480001575471701002285678940777698001200241032315270468901202979885223491319201200601293574255909201201429304105498615001201241738952251903001201202327392846334501202090043892156338001200127417693068575201201681370586027215201201006072612771862701200639232584073648301000624849740468858501200513842112752802101002072769602152250201",
    "23405166511682147719002474769172239894801200110621623720475201000725301805468591401200746756216696934201000642419823944832301000493954553747412901200848227530920859501000705489034381176301000480495551561474101200963706756169572201000681301754327238701202508210496355491401200435367530468396301000206707805422430401200167884990923377501200353706731074688401200462239633595325901000323105935245112801201623272392546017201000810585091573008001000261285880820058701000690893733301293201201091168430942343403000288953560167273901201091168430942343401001218615795954568701000339908376710419301202489287841343276801201355822654594001203201481264421408641401201355822654594001201000204187395115009001200524846680402576501201149178973389438801200185573972095862101200355883411543958301001837490301922259001201634263530255990601201692236963312093401200008474101946657701000524962740691719301200003569326574786601201117754420080704301002345991002884394201200473065022372008601000562649794273940901001772368462070371001200700675012478146601200762707501077683701200475409204965352301001643324433998204401001464846313081635401000444151084920244501200864596336159107801001095473280186017701200222971902238376501201448612421493787801201353949880054940601001767860980329379801000351864665869740601200546193754260294001000173252600946142601200866697353306035101000023536376665295401",
    "13348523026005833249201808243660029556401200846172826558795301002227661402468993001200314360703956531401000835800025867558701202455281241690323601200137826475706825301201175912101309515001200267638263608255601000838400805533061701200026126943765901401002152379682215020801200134085641626510601201899809104803656201201276487400058166901000067377164118960702201030366936501938401000597726203422353401001778570232569541201201994666493088919401200498356220283519001000517413181378906301001348426276437046801001388682712094260601000345695684857771501202450395991478655001200558410123768334501200632005432873453701201340233645593733901002532835591308124601200496907061943785501000332490623425318401200453203284336824201000042651084173589801001264727821259962301001839421855097753201000633996443401493801000091712186377438401000710247366477248401001436404254633351601200246068733374454401001172406116292748701200011053176244283001201243832604306313501201389985816224334401000402173200798877001000082652722158447301002768551311604616001000151394290437431101000416424352915608401000158431872910353301200459665576685151101000332400582441822801202414069910142430601001141278011042621501000658886362662395101200773578920680407501200767158533862085301200244909494951790401200342434904195148401202023320180281589401202319146413862178001000062847504714141601002405988166020784601",
    "07715273654993259814201543920460977932201200801806765937035401202357671453343215001202394841556111795401000330751481261670601000009138673876709601200018766510287465501200855375822030527101001097204946584688301000111747883076053501000168186420803235501000406326704955999701000568528046567547001201211766951042064901000670385135407112101200781589896701630701001932044291182332001001432896002559681601201334183444744533301200946399772067394801201496339984247800801200118650333960254201001385937092634986601000627337075165072801201653679013364441601003278122176002179601200150988623271018401001515010175043836601201504946980239272801201554333310091158801200700809885265397001000524791025618957301000035048680110132701000193200813657447501201298336270575835301203283909783092054401002931736045467441601200397689795744632601200532417094292290001200137418466408955201200240307583412921201001516682774962502801201426598924364228401002512526651304808201200078673553536700201000824981994992731901201348381265534451601201069929560125178601200369151884042973901001213267481357986701000473937192598760601202711864143424944401201492416623891698801200916566502987895901001354429202613544401200116455133090701701201252212654838013601000385994932612031401200725336246063750501201109789386321096201001263358384153333001202467588655749138201000363128311900245501000757129855099264801",
    "00146002415051839368201385064655553244401203208756561570164801000174455231144642901200468905416076136601203469653371980435201000548468620871979301000860244613612632601200065656806042389301000883204670116881001200109898692703518701200590620362248862401201369880615278187401203110630383988552001200516820470051831901200997214775278346401000664539656567734701200274146001997043101202046912825758429401201557007965248668201200257741564764485001201147191120050152101000127689750393470901001277555133042752101200422398122704468102201350521674338717401202702935742133840001000195555193261581401200318247572924007401001831610375236847801202514752360575971001202702278862222635201200776519061401371201002767028792794432001200863587411267853501000330049772054015601000071135863055987401200955306400608217701201115402326050897601200502024040145632101200343621625357197401200323402704303454201201528502916449354001001076784733857125801000504401470384663601000993956871669691201200631000135696143201200280284074125071701200383768446445394401200815795892570149401000897467305038117801001118597000295904501000500497732594260501201496071355228162001200172967881124790201201041736430655129601000750412086070970601200590455031114965001201896664914764961801200205690322609621901000569708532021934301000564400865275504901200860298166231041301001884074974653739801202425507234663763201",
    "03457125531776664838201898901814819517801000167350642808937401200645713664789913301200182084125699349201001902726495885345001200428523686492541101000980469272224280601000032971515869295701200749423874773866601001262405950026769501000654280895578814001200411341903510047801201465468402705957601200458262472268529601001260613705437280801001869395203662305401200034642941203734201000466100652946699501000243577851320148301000903273582708399301201180809815084987601200235552594581886101201021087123699987201202007348700625614601200663480090225808701000042438240745656101000539507882132125001000992748723007754201201076902475350363201000306894782973624501201007582934221617701200023301772452350701002312871144767960001200879552686251436201201029494965095880201001918625516177161201200435620181058749701202222099684587026801000211428944510155301000436075811427697201201148678025222641101200950853122373210301000608590754938850901200910995153124108201201114804984312077101000231916471300340101200075636861606713301003052426320363056001201587866071529693401201396858660386351201002386204821911605001001672146490419777001000626620226220821101201071303264664845201000093947183422175401200062485635097675401200277029900224979701000916381604095983701000746099012767571201201284535033982598101200295750532958134001201156027372672671501001473707130136121201000412424416482808501",
    "04064315095825848088000621465174613139401000112279774703189701202809577113240330401201477892205296924601200224312181117736401201100297251781826201200823494812030956601201690155521635581001000618833775570866001001620923696640065801200867326022724004601000412938245724218201001330850392524335501200157453851580452701200298165935081705801200487685435350728001001556390025496198801200200221281928940901200250014135092677001200798190214377790801001514231875368709601000348792883244920801200451782454706148601000723884982846627101201880732315147426201200281726223642100401000373528651733879401001012446462060533801000043118376696682501000937246820003466901202779319612595434401201354554482447899401000743098685987611001200291905822949102201002144723744955522201000998520622999209201000243780271811403001002046972152569965601001547795393809208401001266187066352523301000154091543958035601201156166796695513101200178282742965026601000819031032529594501200082047544545283801200256479681487291701200746511654849228901200099290160701362601201353863686204560601200029914626409288201001533542145901331401200060897850262079801200160823904648642301201038725643000847201000764812885644107601000811335006595688801002464546020766902801200159799673683137901000958997882813683701200174867535234833101202957317371387988801002311414140657776201000838671572030158001200467580800118531801",
    "12655388552572744363000957477765895513801003217814666074524001001421432470059352001001406364983681353603200046358235469271601001406364983681353601000726673645903770801001460972095854280401000849891251016956301200828325191252811101203121802265950573201001819735541772528201200530848254608542001000099843674145054601201259014801493421401200887865392864960901000507001041589535401200787401851641061701201474840721147088601001808195543941135201200456273956406770201000478347915293884001200005275600884226001000138873860411972101001201103665416005601200692942940400194301200016258541770047901201138749985884119401001685732210452353801000557287890133726401200188687015340094101201042883633334699901200283343103465422801200806439281837023303000851363453084029401200806439281837023301000631819415713661601200229488163723191901200073905564968544801001530534744830671801000768931556485176101001295320843476220201000808264200362607401201177988772568745901201053589971735009001000441774085113130001201653479180971721401200740354800343961901000788911763418139501200750832495356314501201364939734504180801000773347925155440801200092048164103566001201475930914725801801201110174041122368001201106651836347520001000145331922266766201204173117965681919202000692042684594132801000270222251313267501001416059270935228001000170228771260836201200809410234643574901203146707000836341201">>

BetaCorrelationTable ==
  <<"00000000000000000000200969086173327645302201194980826459399602200983519594095331202200017462065682330602201339789263104171708200002259995629372408201339789263104171706200002259995629372406201339789263104171704200002259995629372404201339789263104171702200002259995629372402201306472172659604102200042493354537775502201113371490115345302200195511204536471502200544443086117683804200883989605782033102200544443086117683802201278730253607551002200217447455288693402200178780605460141002200843292824228831404201025457202935094010200843292824228831402201025457202935094008200180564861919670708201025457202935094006200180564861919670706201025457202935094004200180564861919670704201025457202935094002200180564861919670702200507246151558629004200862044812448157402200507246151558629002200878178390457209606200500309682063397804200878178390457209604200500309682063397802200878178390457209602200450910161934763002200874945005348462102200616217110826219202200329858133031629704201211454385395009504200329858133031629702201211454385395009502200097348843531951802200168433664560918506201059803146400556802200168433664560918504201278908256575630302200168433664560918502200952674732275895802200306061112166441002201126788582962700804201071701636352106302201126788582962700802200124654282097492102200923487744871146502200945804530666794502200151509521376225302200908052845602819302",
    "00000000000000000001200558205664735569306200562087135560638008200558205664735569304200562087135560638006200558205664735569302200562087135560638004201295589571923432904200562087135560638002201295589571923432902200033149424848765902200523437066505251506200849337605078666802200523437066505251504201066797724716747204200523437066505251502201066797724716747202200305127231704869002200914423303126239802200576979911348586302200318435532201527002201005389876074976102200472765992309411502200910021485332141406200868079952705974806200910021485332141404200868079952705974804200910021485332141402200868079952705974802201127710051282367104200179253692085339404201127710051282367102200179253692085339402200071371091446095406201302527671028214804200071371091446095404201302527671028214802200071371091446095402200723338763081809702201210557196469661002200093684424792018702200958508392055109104200670070691673154906200958508392055109102200670070691673154904200174263763292992706200670070691673154902200174263763292992704201153131023999195702200174263763292992702201111001883061405604200227119252217256304201111001883061405602200227119252217256302201115377936667770302200967180073868139002200091829554717972002201319427584851401406200867772911398047904201319427584851401404200867772911398047902201319427584851401402200008870434297660502200308360050002370606200770938615321012104",
    "00000000000000000002200622009016109589302200148436236189647504201232950273718407002200148436236189647502201068515662196382104201098474412167582402201068515662196382102200192823090655656102200369329915403505102200316331335718334704201090796273575390502200316331335718334702200522981720901619504200450701155135877008200522981720901619502200450701155135877006200931739482065433304200450701155135877004200931739482065433302200450701155135877002200527857674569677602201192435983048763008200680468583084709508201192435983048763006200680468583084709506201192435983048763004200680468583084709504201192435983048763002200680468583084709502200436074523813267002200839190933664603006200582305713969558706200839190933664603004200582305713969558704200839190933664603002200582305713969558702200924234594004519410200512635154038889910200924234594004519408200512635154038889908200924234594004519406200512635154038889906200924234594004519404200512635154038889904200924234594004519402200512635154038889902200976186632044806202200940013243440820302200998194900751044202200051428751485871602200929349654985033110200720504484502176510200929349654985033108200720504484502176508200929349654985033106200720504484502176506200929349654985033104200720504484502176504200929349654985033102200720504484502176502200651171155827693302200279100303214632502201162269806475620902201171373260772986402",
    "00000000000000000003200327707270194202902200275354362244518202200208028081157854904201185611882650896302200208028081157854902200633555520395350302201036316215265338702200208148060974367402201192231542512839902200271235961408252902200568168303722738502200738821930058361402200556845373176365402201338388192868301608200383360284376826404201338388192868301606200383360284376826402201338388192868301604200971286022430650702201338388192868301602200000999052946345402200751372753250856406200652113283367284302200751372753250856404200039413713335804906200751372753250856402200039413713335804904201306401030446569702200039413713335804902200133380465118050204201111598984629212302200133380465118050202200302214954719745904200935017106348293204200302214954719745902200935017106348293202200357639922694000902200248534726236058504201060826665627604702200248534726236058502201229412506559053508200116637483201744208201229412506559053506200116637483201744206201229412506559053504200116637483201744204201229412506559053502200116637483201744202201059031111714073404200597947960193446802201059031111714073402200200985864752307402200972985946362164202200418335403063607504200796564413797031804200418335403063607502200796564413797031802200514596044490698502201046321250935669302200703431565728178702200229380362218222902201277245372797311114201151146700215588806201277245372797311112",
    "00000000000000000004200845306516647458106200129048584013587404200845306516647458104200129048584013587402200845306516647458102200709410660326093808201133862470702246802200709410660326093806200272308624622984312200709410660326093804200272308624622984310200709410660326093802200272308624622984308200252269841575177812200272308624622984306200252269841575177810200272308624622984304200252269841575177808200272308624622984302200252269841575177806201149499213915983204200252269841575177804201149499213915983202200252269841575177802200674283191557370702200666132096015257002200834444695199387904200376653552142831604200834444695199387902200376653552142831602200946729214727436510200943759280349946504200946729214727436508200943759280349946502200946729214727436506200289819251504296506200946729214727436504200289819251504296504200946729214727436502200289819251504296502200366897291765669104201107405136648313902200366897291765669102200760007913691652702200935908000470186302200574942564873647302201288990811548606106200042328955721913706201288990811548606104200042328955721913704201288990811548606102200042328955721913702200699998485991765606200556735216084877704200699998485991765604200556735216084877702200699998485991765602200614751280871437104200257430442085116910200614751280871437102200257430442085116908200764029585397142604200257430442085116906200764029585397142602",
    "00000000000000000005200883336200715985404201160266040819337904200883336200715985402201160266040819337902200136408361566795002200647450503550293902201234973615549647202200643476236339871102201016148834127357504200449418281263218504201016148834127357502200449418281263218502200586439574812590306200105815601535508208200586439574812590304200105815601535508206200586439574812590302200105815601535508204201255840832048618702200105815601535508202200924873332056581102200091020950667267804201272713970176699502200091020950667267802201323857923763743006200023032975380689206201323857923763743004200023032975380689204201323857923763743002200023032975380689202201341057994925405202200001633206021178402200723973314890138102200940197795810202402200500016105732624202200936510762835382804200204463654600121404200936510762835382802200204463654600121402201067445216636158904200558138204154407804201067445216636158902200558138204154407802200671591261592971904200939547623630720404200671591261592971902200939547623630720402201284196941981433002200013037701874016002201253730094119804602200098020754795274502200298292492942437108200963304743159533006200298292492942437106200963304743159533004200298292492942437104200963304743159533002200298292492942437102200315814116233914306200931576325819563404200315814116233914304200931576325819563402200315814116233914302201180498286555883502",
    "00000000000000000006200835326053977332002200644088544925093302200665643873611548602200415156046047594006200924384630524312504200415156046047594004200924384630524312502200415156046047594002201167550661275798802200971135645604660502200057279746007143702201333768896272360302200007196940023861302201284504800329176204200220933315298938204201284504800329176202200220933315298938202200534294702925937804201154559290463349104200534294702925937802201154559290463349102200516851583884242102200337554681734094002201151714872263821204200119565494364301504201151714872263821202200119565494364301502201186043211145123102200293314811994214702200564340961185684802200889892140511145202200571191316360705502200607238921028833404200726183902542337108200607238921028833402200726183902542337106200072043955522916808200726183902542337104200072043955522916806200726183902542337102200072043955522916804201271391284128559302200072043955522916802201278940711632545404200237080631275480104201278940711632545402200237080631275480102200285591644716133602200005966464257937004201332249992199526802200005966464257937002200306876045279161008200484431912156552704200306876045279161006200484431912156552702200306876045279161004201236675485361030402200306876045279161002200489657242341230702200699725153633063002200574706100239356102201018808233288589206200404259716145893306201018808233288589204",
    "00000000000000000007201071122312472167404200564870120441764304201071122312472167402200564870120441764302200004892291066487304201337608383033714302200004892291066487302200830003545062319204200702639671270801304200830003545062319202200702639671270801302200704019675804069702200469640436356288902200624405033880546802200636597705058451602200246829721810889208200780306951900375706200246829721810889206200780306951900375704200246829721810889204200780306951900375702200246829721810889202201273979712808582202200748393624975340702200065750810191114102200708081525910496802200918651904372146806200683806774855158104200918651904372146804200683806774855158102200918651904372146802201298073302305880502200057735003529863002200260792655409927302201071496921366052502200451687612257029902201334086094728670702200003304242434721602201162688711046689202200472339255175480302200163565020063215808201222655006133576306200163565020063215806201222655006133576304200163565020063215804201222655006133576302200163565020063215802200694809972446696602200487845300154245804201246667936135351704200487845300154245802201246667936135351702200148137295103072002200738820281481037802200940535183014922902200177541615585273302201129142774530172608200312911666327428308201129142774530172606200312911666327428306201129142774530172604200312911666327428304201129142774530172602200312911666327428302",
    "00000000000000000008200730970562367921308200629005253233995906200730970562367921306200629005253233995904200730970562367921304200629005253233995902200730970562367921302201073943395115334402200213383313737697202200914941414619770402200647467115322089802200793027270206329702200653101812129430702200226591193368097902200379800250276006604200853703360145891502200379800250276006602200359433723067006506200769576990813221406200359433723067006504200769576990813221404200359433723067006502200769576990813221402201286780954564830602200088914922545581402200398305603019207502200672373573147133002200506786756545624002200785592312832213802200562150881273703302201010222014043913002200856196230218032002200361203683871156702201069854250085559002200247815301429338202200586014702934793202201285957395230468904200050649852756352804201285957395230468902200050649852756352802200563123881484523406200292566266483082004200563123881484523404200292566266483082002200563123881484523402200535359860226672704200974270024808508702200535359860226672702200848717584316588302200494029875329556702200623829484535669602201028530125118024604200344129593152513104201028530125118024602200344129593152513102201203542784863646702200143022522877669902200776841022689911902201068277804651498902200440834886569475902201102940406422997002200168424886099752002200640868934136969702200600127043683360902",
    "05280136735386738038200611285014036260402200264493251637862206200895968084904620204200264493251637862204200895968084904620202200264493251637862202200327873336116640614201240629545832225712200327873336116640612201240629545832225710200327873336116640610201240629545832225708200327873336116640608201240629545832225706200327873336116640606201240629545832225704200327873336116640604201240629545832225702200327873336116640602200813754453949822802200042518790248577108201284031341915275006200042518790248577106201284031341915275004200042518790248577104201284031341915275002200042518790248577102200696808181621544902200656644234557606702200976507335862325406200418596795794022608200976507335862325404200418596795794022606200976507335862325402200418596795794022604200378381283393367206200418596795794022602200378381283393367204201239691192571701602200378381283393367202200848537101913849202200387357084464907502200481309156051141002200707660560591233202201324993293714719902200018306420582850902200727745832456293504200758801275179728704200727745832456293502200758801275179728702200320715820484255102200439425923131350304201213488003773893702200439425923131350302200199538482396682402200901381834014414002200579438484933429602200117956922695689506201195058161854486612200117956922695689504201195058161854486610200117956922695689502201195058161854486608200510030353034183108",
    "02413141351714541017200856353511636683906200646719194804361106200856353511636683904200646719194804361104200856353511636683902200646719194804361102200795331620475451602200424368595540670202200709870991829861902201089895642595761602200289917226635606602200616270062754759902200646187551467083002200987662272475033802200334539470678443502200850491302787892804201175217693186368702200850491302787892802200241009194533734502200777559525577062602200446799901090225002200822671172568029902200384558453970704802201324644241256046202200014971206704743602200094962343562247510200714885406652906102200094962343562247508201237450551536525906200094962343562247506201237450551536525904200094962343562247504201237450551536525902200094962343562247502201022734555626083102200660716125594931802200195339574773797604201201303385960254302200195339574773797602200482165934039291204200540014793538403416200482165934039291202200540014793538403414200821732534045089612200540014793538403412200821732534045089610200540014793538403410200821732534045089608200540014793538403408200821732534045089606200540014793538403406200821732534045089604200540014793538403404200821732534045089602200540014793538403402200742182942178471802200552099902228772302200054924265977322406201324712991405312804200054924265977322404201324712991405312802200054924265977322402200137073252562169802201159433111476096104",
    "25875099980988603383200905870240103375902200745421152018187702200502321520611372602200398454722754293102200693904645355341714201060587316637043810200693904645355341712201060587316637043808200693904645355341710201060587316637043806200693904645355341708201060587316637043804200693904645355341706201060587316637043802200693904645355341704201047785245616257610200693904645355341702201047785245616257608200328780831026600306201047785245616257606200328780831026600304201047785245616257604200328780831026600302201047785245616257602200931012116429826002200600477383502927802200735639276024489902200144869235694546702201115266783396628402200257455885229775202200078746085078266104201210018595372365302200078746085078266102201238518501875465202201257191453024104602200118969825692033902200077023080265117102200142128180768123104201166608144483489402200142128180768123102201137138442558857402200222350823056443702201087053063662263106200641313794125605406201087053063662263104200641313794125605404201087053063662263102200641313794125605402200106907813443580206201180609955752295404200106907813443580204201180609955752295402200106907813443580202201239230333370647904200128949705227256904201239230333370647902200128949705227256902201316711954840156402200014953024770155502200177984935235986808200699572531129599406200177984935235986806200699572531129599404200177984935235986804",
    "03164327204265942064201334692645870896702200009218783251756502201080093861182044902200206545594247195802201054615895347437904200357509575104045704201054615895347437902200357509575104045702200280328542143413204201159189343435520502200280328542143413202200905245764868936902200530003442967169402200480260244148908702200792200725394141104200743902205727097606200792200725394141102200743902205727097604200046984872172863706200743902205727097602200046984872172863704201290073145701884202200046984872172863702200933938820633823208200462188043055769108200933938820633823206200462188043055769106200933938820633823204200462188043055769104200933938820633823202200462188043055769102201083529634130562904200272024755730773904201083529634130562902200272024755730773902200445565836610263904200968253183981889704200445565836610263902200968253183981889702201205244714676129404200213111646500282004201205244714676129402200213111646500282002201014086486451634502200319182390513449102200553333980046448302200914790671259084402200356381905909210602200455310636146021504200822179593862124402200455310636146021502200271425495671892604201339619454741312504200271425495671892602201339619454741312502200002412762600353002200397709873527816022200951878972011154520200397709873527816020200951878972011154518200397709873527816018200951878972011154516200397709873527816016200951878972011154514",
    "25605584113064061886200911028580774395602200478071924944199502200640263006495413802200697398562058746302201274408600277423502200049782191902581202200095279502406712006201266051384026439804200095279502406712004201266051384026439802200095279502406712002200892471892751490002200304699241376223704201104066243721864902200304699241376223702201290423711871004004200057146231346626704201290423711871004002200057146231346626702201312488962139522704200078088793104481804201312488962139522702200078088793104481802201002128262909842602200075589560682883602201058961980039049008200246324190704487602201058961980039049006200822472070526346206201058961980039049004200822472070526346204201058961980039049002200822472070526346202200275084151477215902200837074091585635302200485328820047533810200887333326337786508200485328820047533808200887333326337786506200485328820047533806200887333326337786504200485328820047533804200887333326337786502200485328820047533802200614510004316699802200107934564289621406200915098565729002304200107934564289621404200915098565729002302200107934564289621402200706710500913341008200175577984547320302200706710500913341006201081797573000234206200706710500913341004201081797573000234204200706710500913341002201081797573000234202200144493132474359002201232914044641826402200188215296537718102200856429095097973102200623554334326573302200403232903215744602",
    "07250042322348254248200469588990582937210200971613703385700508200469588990582937208200971613703385700506200469588990582937206200971613703385700504200469588990582937204200971613703385700502200469588990582937202200969466683572632602200319101563344086302200664946532205936604200897221935526767502200664946532205936602200671274741824206804200713828400344585004200671274741824206802200713828400344585002200501238471009633202200143049554514404306201264957226409685508200143049554514404304201264957226409685506200143049554514404302201264957226409685504200171364851983332104201264957226409685502200171364851983332102201270436274591251002200084351595408544502201051963541468355902201119560021066615010200752320040321563810201119560021066615008200752320040321563808201119560021066615006200752320040321563806201119560021066615004200752320040321563804201119560021066615002200752320040321563802200370046831800138002200745634674271344802200305917276675098206201184896345530455604200305917276675098204201184896345530455602200305917276675098202200498173793396036402201146341083977423004200172175943099799004201146341083977423002200172175943099799002201331246762899300802200020949422322542002200831915294648446002200532422425129751502200451137041297753202200383135674999313708200965617851220343602200383135674999313706200950854472825874504200383135674999313704200950854472825874502",
    "11673257132161146023200389301271046348606201038751474655001604200389301271046348604201038751474655001602200389301271046348602200773961970310145702200564769202077078102201175824284819264202200101030332708482902201268639070528530402200084658174839035602201318810391763356102200133711741102721902200537424676627252602200301267495763560602200975555074577768402200485119363661508002201301996983187943404200045772032819313704201301996983187943402200045772032819313702201044861163496886102200124244950685735802201129030663860342110200848943140064299310201129030663860342108200848943140064299308201129030663860342106200848943140064299306201129030663860342104200848943140064299304201129030663860342102200848943140064299302200082401622528730402201179518135720350804200488038900442095302201179518135720350802200115126523123854102200389579132540009310201001571015098470302200389579132540009308200827217165536291010200389579132540009306200827217165536291008200389579132540009304200827217165536291006200389579132540009302200827217165536291004201193661243825717004200827217165536291002201193661243825717002200133262286024677002200797204425803759106201092057212610879804200797204425803759104201092057212610879802200797204425803759102200820243160434920902200883732045700169002200105629686003070102200935397272838044104200447621810199695804200935397272838044102200447621810199695802",
    "13313198394844864197200121982750249214202200437250796136495502201259367035865581204200219116515684841004201259367035865581202200219116515684841002201180192110680553406200137748996242739706201180192110680553404200137748996242739704201180192110680553402200137748996242739702200001481620244311410201341248292584878608200001481620244311408201341248292584878606200001481620244311406201341248292584878604200001481620244311404201341248292584878602200001481620244311402200845428750250068002200719316813488877806200471922005125084906200719316813488877804200471922005125084904200719316813488877802200471922005125084902200707445192194774108200621154305137062706200707445192194774106200621154305137062704200707445192194774104200621154305137062702200707445192194774102200661288505774211608200666966394275737006200661288505774211606200666966394275737004200661288505774211604200666966394275737002200661288505774211602200726042195882845802201102215430463502702200678523714839408602200190644223446807802201155272790673313602201090969576093302902200250672775928116502200465419284966145002200312999676588949702200055044240953031608201244902003501564006200055044240953031606201244902003501564004200055044240953031604201244902003501564002200055044240953031602201293248512024883702200299340974086084802200132928660164112502200073714862696869804201137476633002197102200073714862696869802",
    "30640618865730722670200948659892828071304200474599284334780202200948659892828071302200536051951180931602200729335442483932904200021636372339155906200729335442483932902200021636372339155904201326103374502314102200021636372339155902200417359204738191004201040253360277865806200417359204738191002201040253360277865804200853388294157656102201040253360277865802200403109184390393402200414611414054182002201075129826021320404200156524844663039804201075129826021320402200156524844663039802201003891600016227802200443779153440130702201179691635286761502200107101681016383102200353511205566341904200944781932695501402200353511205566341902201189425924640568902200161105600962868302200575244183443405504201273107360085888104200575244183443405502201273107360085888102200041436766431515502201104429592259918102200351162105819306402200550156470173110402201087146191974346002200236553195375344602200786381092434246402200787228010083702502200545470783038935002200947058514899822002201320457471490377702200022169896664051502200260154692709312502201085035644626525002200491759882083099702200367207721221531502200148219733284053106201155061172737675504200148219733284053104201155061172737675502200148219733284053102200895334436090268504200641167524996952004200895334436090268502200641167524996952002200589295271459335702200934164413429950802200288630991221094402200920627423618908410",
    "12628308200411643061200779584070946501906200330864643216531806200779584070946501904200330864643216531804200779584070946501902200330864643216531802200777935554626747912200135401856031126108200777935554626747910200135401856031126106200777935554626747908200135401856031126104200777935554626747906200135401856031126102200777935554626747904200564210365630176404200777935554626747902200564210365630176402200408521375142044706201006038894887296504200408521375142044704201006038894887296502200408521375142044702201209756592643109002200184172801805193202200479298171307904902201159615105750248504200127171754500408504201159615105750248502200127171754500408502201010504704463404906200458394380684493104201010504704463404904200458394380684493102201010504704463404902200688568755360496002200342266090009233802201234954141914701302200498152025065915008200651165825297142010200498152025065915006200651165825297142008200498152025065915004200651165825297142006200498152025065915002200651165825297142004201273222500172033704200651165825297142002201273222500172033702200031988415610705602200102149641871521206200152503766268063202200102149641871521204201242281344657045402200102149641871521202200748622230179641002200636253410370033502200743819170249014904200526703144319426204200743819170249014902200526703144319426202200819287111607012702200494965260784414802201144284130746279506",
    "21611460230725004232201108101216558200108200431351930749692108201108101216558200106200431351930749692106201108101216558200104200431351930749692104201108101216558200102200431351930749692102200465804475265290502201051596635625727002200242391784641251404200244789044931057706200242391784641251402200244789044931057704200997325681169242602200244789044931057702201204330921157313104200127195663147330604201204330921157313102200127195663147330602201135653113880729802201176090300736836602200050349766292245202201198106300481304108201277391571922004802201198106300481304106200246391463894990306201198106300481304104200246391463894990304201198106300481304102200246391463894990302200483457013978257602200609816714139153304201114297965753418104200609816714139153302201114297965753418102200165665141805096102200404817282315035308201172155972569965704200404817282315035306201172155972569965702200404817282315035304201335734513568224302200404817282315035302200016633942333444402200818537883991133408201073256723138006804200818537883991133406201073256723138006802200818537883991133404200886534344867571304200818537883991133402200886534344867571302200409497975778856802200641600383715829202201074555441275023006201183705786593188504201074555441275023004201183705786593188502201074555441275023002200077383600617417502201203684634877556602200305050355438771202201072126185573969102",
    "18448438871167325713200091458766005150204201232289331817887702200091458766005150202200088354412769149806201209657612433326704200088354412769149804201209657612433326702200088354412769149802201026575065797809904200990443833389244202201026575065797809902200202580655247843302201042096440097912102200367199073798233802200558331261916741202200240130585616075204200510133672012687908200240130585616075202200510133672012687906200985842494896872704200510133672012687904200985842494896872702200510133672012687902200624390176101288302201271126371514470702200078660792288677002200592096324570572202200791210300340011304200863684535873505704200791210300340011302200863684535873505702200570456642698647402200682401805137936102200526191563547758002201080726972792414702200194413286451765802200892033945009625202201171797125448117202200067424264362930202200952143640334184406200411420554161949804200952143640334184404200411420554161949802200952143640334184402201060447192308562402200112425431157430002200836107853507959006200887859404734775004200836107853507959004200887859404734775002200836107853507959002200326777451680669202201285376991805252304200262993441357450604201285376991805252302200262993441357450602200486953323657170402200247984161816738902200000327870159194010201162333533969675004200000327870159194008201162333533969675002200000327870159194006201341828744148562604",
    "15130063023382551124200138263810119123204201205456484321935602200138263810119123202201036956960391335302200403691640354481002200699734961722732502200930368956108403502200780389900455253502200234562466189384002200941901255029070502200379510714031760902201136752696140333802200236025622038209302201263967280996022902200061963030095857402200119076073394360108201165964215456103406200119076073394360106201165964215456103404200119076073394360104201165964215456103402200119076073394360102200825004735621347902200445993845858170802200430595010555984908201110435145390912906200430595010555984906201110435145390912904200430595010555984904201110435145390912902200430595010555984902200695926432319238206200965604161871238304200695926432319238204200965604161871238302200695926432319238202200463098435192823502200186460700244635104201177476570965063302200186460700244635102200785724784594069304200708339792729686702200785724784594069302201291276732559754002200026369463503816802201317751921063889504200636642692981778202201317751921063889502200034692325154942302200787206623362486002200806540132788001502200352758431802648302200837215216082401302200998607035438042002200192724823379483910201288901645501127008200192724823379483908201288901645501127006200192724823379483906201288901645501127004200192724823379483904201288901645501127002200192724823379483902201036828446113530802",
    "11550127776455117127201165166445325012608201291006246095562604201165166445325012606201291006246095562602201165166445325012604200127107971637718504201165166445325012602200127107971637718502200400998706374094806201161751933954092704200400998706374094804201161751933954092702200400998706374094802200732988096220788702200365651421762149602200604455416429464904200529216456122091004200604455416429464902200529216456122091002201174758070815258204200123841351616072804201174758070815258202200123841351616072802201112248316290764902200215545223463178902201088554885056541302201307036204181618302200020873710940977302201105649576477483602200239319586107241802200493860395665499406201162461103248656504200493860395665499404201162461103248656502200493860395665499402200402177844544670402200589783971822816806200927928295327462504200589783971822816804200927928295327462502200589783971822816802201254062950924602910200084113752577862710201254062950924602908200084113752577862708201254062950924602906200084113752577862706201254062950924602904200084113752577862704201254062950924602902200084113752577862702200134013970714776904201230073766168071702200134013970714776902200798697610467443304200824465444438285202200798697610467443302200259767923345807302200318841453366584504201094588895624978002200318841453366584502201092757035814278904200273324206404925304201092757035814278902",
    "04116430615335709367200007420462458248402200601191164716839002200041532244585525606201297740123584339204200041532244585525604201297740123584339202200041532244585525602201320054631651613702200025419556295963402200036752934205372004201296966151437967902200036752934205372002200189871780905547208201199033825907940206200189871780905547206201199033825907940204200189871780905547204201199033825907940202200189871780905547202200989288554263065706200259620054915493606200989288554263065704200259620054915493604200989288554263065702200259620054915493602200960495681182423806200679537665896720806200960495681182423804200679537665896720804200960495681182423802200679537665896720802200858377256346430002200278153131225200202200710659135050076702200582648485194501302200713496954453013404200953230780865215004200713496954453013402200953230780865215002200445194343881578402201111251005802277002200027178955805011514200381135380860769606200027178955805011512200381135380860769604200027178955805011510200381135380860769602200027178955805011508201023876296214291002200027178955805011506201321025146703034404200027178955805011504201321025146703034402200027178955805011502200301537471759374104201180910053232645702200301537471759374102200429112421647607402201125742835744827204200959163144469990502201125742835744827202200137983693223355002200637747200839724202201131741694680811012",
    "05106442571262830820201270222823271494104200056710960999528804201270222823271494102200056710960999528802200745175124748302404200640996582617357504200745175124748302402200640996582617357502201332320586577231206200011442960394424606201332320586577231204200011442960394424604201332320586577231202200011442960394424602200249462015124620404201267791371820504002200249462015124620402201132853184418962706200579284176543159504201132853184418962704200579284176543159502201132853184418962702200113735732534525702200567306766409701904201238122311940202506200567306766409701902201238122311940202504200114376303894740404201238122311940202502200114376303894740402200214690071245903006201204599482051328904200214690071245903004201204599482051328902200214690071245903002200244069933680379710201092670930652119608200244069933680379708201092670930652119606200244069933680379706201092670930652119604200244069933680379704201092670930652119602200244069933680379702200392590911611075406200593274684476103506200392590911611075404200593274684476103504200392590911611075402200593274684476103502200709694505099151402200611424381939401502200655400075277777102200659097054763957502201051659800387693002200275345435377576002200546145665628236204201174426775989271902200546145665628236202200736187875700263202200426509620163283702200858192530660261602200369052952834078702200652732883101768102",
    "28867291244954026988200309854220050876208201290456342366565310200309854220050876206201290456342366565308200309854220050876204201290456342366565306200309854220050876202201290456342366565304200067502455125292204201290456342366565302200067502455125292202200493748006335784906200658613720558195204200493748006335784904200658613720558195202200493748006335784902201164796742201142512200257451214097524412201164796742201142510200257451214097524410201164796742201142508200257451214097524408201164796742201142506200257451214097524406201164796742201142504200257451214097524404201164796742201142502200257451214097524402200749150286454909406201243596613380377204200749150286454909404201243596613380377202200749150286454909402200212700731726744502200395510633709270002200847507404186611202200037598804474159004201309334231944728002200037598804474159002201196831332165516404200325395182045634704201196831332165516402200325395182045634702200763280453397093702200477322866019531902201027844940202298306200601080350877499506201027844940202298304200601080350877499504201027844940202298302200601080350877499502200449813115318766902201271250553259395308200303171374762317306201271250553259395306200303171374762317304201271250553259395304200303171374762317302201271250553259395302200128144714552471802200750807273363217502200263059356653381106201277928694111484004200263059356653381104",
    "21575111615683005546200260116272580226802200943719796214475702200930472243502489606200738105410950132606200930472243502489604200738105410950132604200930472243502489602200738105410950132602200986388926204699302200183290646702965402200384187385245353104201079503152713175002200384187385245353102201080310310535874102200531419945499044902200352676036018883102200375405843498359406201129900366133772504200375405843498359404201129900366133772502200375405843498359402200595803543547261202201151089202515277102200219255855810946602201109121364634543602200382501121246948602200441557631353563702200902475720121540402201154242590536895702200135624185300140102200986380125192167202200232183015296108102200099686444710396204201236594774808797402200099686444710396202200671054714473262704201012223676107779702200671054714473262702201039858702374048208201042141990220194206201039858702374048206201042141990220194204201039858702374048204201042141990220194202201039858702374048202200096757916378520202200757553772214547004200554008563842849304200757553772214547002200554008563842849302201032473262308798402200172945351362338802200677016413775372004200940288585515942208200677016413775372002200940288585515942206200634813704208399204200940288585515942204200634813704208399202200940288585515942202200158690995727733002200307937093514421406200888117190476615702200307937093514421404",
    "28433331464543553804200145059723038391404200759898105786550404200145059723038391402200759898105786550402200990527146577347804200674428910998714404200990527146577347802200674428910998714402200277289210887715502200607048991132434902201231180970989520102200118863123783759402200799508856592151804200980360254209976806200799508856592151802200980360254209976804201334758093524327104200980360254209976802201334758093524327102200006837423008488002200514876653438417002200935347810079923002200378282654284429102201338775734239839704200003628484863379204201338775734239839702200003628484863379202200413219872462158206201143926262986416104200413219872462158204201143926262986416102200413219872462158202200534867461121895702200636769845524992402201283179456024313302200042679005485567802200174697215949804406200277089422404240610200174697215949804404200277089422404240608200174697215949804402200277089422404240606200915896201290727204200277089422404240604200915896201290727202200277089422404240602201008745871716510204200853531371618707804201008745871716510202200853531371618707802200407934904273574112200603600611112301806200407934904273574110200603600611112301804200407934904273574108200603600611112301802200407934904273574106200907768356524173004200407934904273574104200907768356524173002200407934904273574102200686212852575551006200684174660798559406200686212852575551004",
    "29560228422067145472201321851921629854404201060170510466220602201321851921629854402200001758380925573302200855092210997498208201007985542292185406200855092210997498206201007985542292185404200855092210997498204201007985542292185402200855092210997498202200561705010740367302200208056366552676302200958709921738219004200718242232431090402200958709921738219002200324556974427329502201289782244133619408201198610650079508402201289782244133619406200055355561184541606201289782244133619404200055355561184541604201289782244133619402200055355561184541602200769854254702195204201062537863899110902200769854254702195202200175044901005489102200455627315741920806200984796045642950904200455627315741920804200984796045642950902200455627315741920802200836790552047743802200449759312593150002200958593161042330102201068072500345720402200294834352969867702201047329481806031904200480906623137250910201047329481806031902200480906623137250908200300286265432944104200480906623137250906200300286265432944102200480906623137250904201110725972540591002200480906623137250902200231312064288638602201279277502038391102200078301943528227802200810998290912024910200703050200523717908200810998290912024908200703050200523717906200810998290912024906200703050200523717904200810998290912024904200703050200523717902200810998290912024902200185761965376183302200886938501475966404200415580321507614304",
    "25178571536153324865200247470306270389204200269118041587675608200247470306270389202200269118041587675606200923885570278082208200269118041587675604200923885570278082206200269118041587675602200923885570278082204201084914222622813402200923885570278082202200370437580046857602200872376994489128302200154544190587617702201100310943544108902200240437135936147602200054179770718557904201287374324922745102200054179770718557902201286606595423708402200081149673898146402200025948893454812708200982608824512325404200025948893454812706200982608824512325402200025948893454812704200215953130075628808200025948893454812702200215953130075628806201252902682418665704200215953130075628804201252902682418665702200215953130075628802200395063611241386702201164961261827714102200359956794612003602200704033362738696606201163527120015481906200704033362738696604201163527120015481904200704033362738696602201163527120015481902200086269761231451102201077946080331194702201232299522851893502200146596893085724302200320253130690267402200425611686195651006201115419005577386204200425611686195651004201115419005577386202200425611686195651002200433894853618537402201327730184512723802200011419262893117502201037244903748704606201179828256448664602201037244903748704604200611053975531755304201037244903748704602200611053975531755302200802463720197811802200178243565909223402201044402240103974304",
    "13255056714021808441201030351893149157008200297938750181201508201030351893149157006200297938750181201506201030351893149157004200297938750181201504201030351893149157002200297938750181201502200433608595185884602201138657651738505902200315775192303467302200602170004959316502201144032945662448806201064095512473192308201144032945662448804201064095512473192306201144032945662448802201064095512473192304200057000041970405304201064095512473192302200057000041970405302200038590235181070104201327999710925112702200038590235181070102200651780152269060302200484870376003122602201063549154374982306200568228582414172910201063549154374982304200568228582414172908201063549154374982302200568228582414172906200347774684726345604200568228582414172904200347774684726345602200568228582414172902200986366435829120908200610571460972524506200986366435829120906200610571460972524504200986366435829120904200610571460972524502200986366435829120902200442015581146929902200394557315940694402200881695882480230704200388524076382659604200881695882480230702200388524076382659602200972104176200388302200698013375858562606200967413990005228506200698013375858562604200967413990005228504200698013375858562602200967413990005228502200628598610220827002200232009135999533102200675581122573085104200683029873788208802200675581122573085102200434352732071896010201092257011205523208200434352732071896008",
    "20671454721601550628201323070831131456006200203868163416695806201323070831131456004200203868163416695804201323070831131456002200203868163416695802200177261902600571402200613567231616662102200667496566020197602201125973453039137004200274708072047378804201125973453039137002200274708072047378802200868138456542637702200923891320948544202201271261833965795904200200020413836987604201271261833965795902200200020413836987602201135734580139113102200389665512531463202200629215513984263402200312273236406733402200433060621211131404201139190502959524002200433060621211131402200514172163705910702201123181675404299502200582441782840502002200198953915547630002201064577155285401904200236335952589038904201064577155285401902200236335952589038902200885663834970670604200401735070369250304200885663834970670602200401735070369250302200785782644777193808201134218012421898102200785782644777193806200312625245284426006200785782644777193804200312625245284426004200785782644777193802200312625245284426002200019446740378181004201297214072671520202200019446740378181002200882371144113200204200584661881453283702200882371144113200202200350277530612882702201211707342812315104200276761735639246104201211707342812315102200276761735639246102201073893610392465202200231156965132899202200585593936699110906200489876182207030108200585593936699110904200489876182207030106200585593936699110902",
    "07439476991325505671200217780533731767704200033776193265599406200217780533731767702200033776193265599404201286095984845237002200033776193265599402200940077892567842602200441834663715972202200215750456197981206201149153565244741804200215750456197981204201149153565244741802200215750456197981202200498810515719491506201148073943434266902200498810515719491504200998496523154779608200498810515719491502200998496523154779606200686389596510809106200998496523154779604200686389596510809104200998496523154779602200686389596510809102200222656916690362102200961035166195392706200474427630846642206200961035166195392704200474427630846642204200961035166195392702200474427630846642202200812018645823174204200750277764732279904200812018645823174202200750277764732279902201168088360548886202200062602124173549102201234878994358754004200289051041560861204201234878994358754002200289051041560861202200564275352831692902201044706386419822102200159528493696681802200944324826349682702200640620966038047402200480487210352774602200478343783363502606200939361215499102704200478343783363502604200939361215499102702200478343783363502602201086118871888863808200255005950401447808201086118871888863806200255005950401447806201086118871888863804200255005950401447804201086118871888863802200255005950401447802200947068276129525206200740540196038899304200947068276129525204200740540196038899302",
    "08761623545448210519201044619154997010308200502656975418615408201044619154997010306200502656975418615406201044619154997010304200502656975418615404201044619154997010302200502656975418615402200773073466348014602200526797702589621402200698381064603924702200616743751736144402200350139110976135402201161787155553647004200161410696661425504201161787155553647002200161410696661425502200199590290084648004201214029236412946402200199590290084648002200841392764314601002200462334156048649002200766253773040561306200875824765164485602200766253773040561304200648910895430398804200766253773040561302200648910895430398802200337311661479241808201103207365251165306200337311661479241806201103207365251165304200337311661479241804201103207365251165302200337311661479241802200928337704080281102201133262015062327502200030516144493157802201053639470844825302200407734913789170202200661242245702409302200221111003685514608200886729671319449502200221111003685514606201164026295210132804200221111003685514604201164026295210132802200221111003685514602200925565454456731404200393235981346348504200925565454456731402200393235981346348502201341297200177845104200000809606365132004201341297200177845102200000809606365132002201197765900866734004200138267491967030704201197765900866734002200138267491967030702201131393185606986402200232299093203616102201295830501479801902200057470014960816602",
    "05801520866376702824200971323040047383002200077735051687555302200692627432747985004200602047516458382004200692627432747985002200602047516458382002200727538535156376504200810442450876726502200727538535156376502201022192273764934602200166577520686621102201011134585262369502200651341715265517702200323697371099576502201239445282546023304200074136525908018404201239445282546023302200074136525908018402201027323005270043416200839764670944731510201027323005270043414200839764670944731508201027323005270043412200839764670944731506201027323005270043410200839764670944731504201027323005270043408200839764670944731502201027323005270043406201002764540070902604201027323005270043404201002764540070902602201027323005270043402200136113305756629702200821216283274034802200593893675917740902200575517545254344302200370649085918227708200829497602553048106200370649085918227706200829497602553048104200370649085918227704200829497602553048102200370649085918227702201133520695851571408200514372371643797308201133520695851571406200514372371643797306201133520695851571404200514372371643797304201133520695851571402200514372371643797302200698378575426595202200927092110665239404200237476124568642804200927092110665239402200237476124568642802201090548662109509304200307871415742168804201090548662109509302200307871415742168802200721627446282386502201170266990076056708200646275494763891206",
    "18309231300580152086201035423963185079402200019161251347172404201336273972459694802200019161251347172402200604366276671860202201275386291950281504200058727376046987104201275386291950281502200058727376046987102201115973241308577902200500877442837266202200677390936391823902200043474675266721208200962382953409666912200043474675266721206200962382953409666910200043474675266721204200962382953409666908200043474675266721202200962382953409666906200384001903730545406200962382953409666904200384001903730545404200962382953409666902200384001903730545402200520557980764433506200833959796610029404200520557980764433504200833959796610029402200520557980764433502200975502374201231702200489324993839562102201260391442525464402200035370143582293602200812657585425106206200380778801129041602200812657585425106204200546890076591071004200812657585425106202200546890076591071002200765317306393195002200910752284292536304200609229854639469204200910752284292536302200609229854639469202200776085193465475004200264323152332541304200776085193465475002200264323152332541302201075090290572190006200524572710090412502201075090290572190004200390953892552623704201075090290572190002200390953892552623702200750418704072748502200511548463563564002200871000771513975502200548865064850721904201227261613298640004200548865064850721902201227261613298640002200065172292846542902200560079461787760604",
    "09065482073500513058201167979113325806602200211322465317935102201101045211410607904200365911300284558204201101045211410607902200365911300284558202200012169015722891208201334284613196756906200012169015722891206201334284613196756904200012169015722891204201334284613196756902200012169015722891202200852079066445473104201290965771173815802200852079066445473102200067627381127971502201201564021982648406200537921812827842306201201564021982648404200537921812827842304201201564021982648402200537921812827842302200376337473544723502200442930081596657604201141370786019071902200442930081596657602200339942162917071502200832729521783316606201032648842502880702200832729521783316604201316623223192488306200832729521783316602201316623223192488304200063395493349512004201316623223192488302200063395493349512002200252169951447039402200233754910297975404201083884864364117104200233754910297975402201083884864364117102200241949856032081202200781386393453846804200889213985963979402200781386393453846802200571826842858152602200765839662529039304200367295044017812904200765839662529039302200367295044017812902201337059110404518104200032118820710276704201337059110404518102200032118820710276702200179459355637257902200713827645219166704200572460391666726804200713827645219166702200572460391666726802200774031505074966002201296713401931531306200293975616254423006201296713401931531304",
    "00413241624197902547200210301504262853102200003012012985885404201340242213346294402200003012012985885402200965994750358980102200335762184652610302201128134731004914002200133253321608860802200691162764749734104201130756350026585602200691162764749734102200159959583387522502201204990770853709704201011988334145774702201204990770853709702200064685022053915502201131087344385628202200648173700911277302200153463372775258102200246887353056519004201118386162863218002200246887353056519002201336761376273691104200063309405033235404201336761376273691102200063309405033235402200072606761037841002200828157583091224502200601004192387084302200091356090765086304201223044933276674502200091356090765086302200327059171508649304200663192904963740112200327059171508649302200663192904963740110200974259851416807812200663192904963740108200974259851416807810200663192904963740106200974259851416807808200663192904963740104200974259851416807806200663192904963740102200974259851416807804200828106673835937602200974259851416807802200950882273444726906200362281474700905106200950882273444726904200362281474700905104200950882273444726902200362281474700905102201332820555009204302200006045512561074402201221882626517797704201303446853276287406201221882626517797702201303446853276287404200042720591391997804201303446853276287402200042720591391997802200671569404342282902201278335754897352106",
    "13439395700906548207201072560915753646304200096610061625086604201072560915753646302200096610061625086602200059741564116282904201298085536588827502200059741564116282902200653797622626940402200074757931924508504201277303376656776102200074757931924508502201308379165812269902200120010951643557202200393964770952905202200044192614016652904201305631894309762902200044192614016652902201275179955321280602200102428813426482102201121881313418440902201258954934066702702200010898043413963002200775271722735397704201059434931584925802200775271722735397702200722268735590756402200351253144285081802200494808271401455802200524180431574856604200802454456586568802200524180431574856602201274744743131224404200146598425990658004201274744743131224402200146598425990658002200672784920397144602200645907543766140102201080457262247622504200070461011415870604201080457262247622502200070461011415870602200591477985301217704200874516863992147804200591477985301217702200874516863992147802200541377940349070802200450442053726021904201220104890031964502200450442053726021902200494550564354068602201035137256208521102200602255525036188302200279363206223552602200883261933293187702200280179872535179402200019918271814735614200777254594935244006200019918271814735612200777254594935244004200019918271814735610200777254594935244002200019918271814735608201300229735509137406200019918271814735606",
    "08719221921062144558200579029773044116902200340866422488938202201237013713185453702200068281643286569202200137900153737681610201208703606108414908200137900153737681608201208703606108414906200137900153737681606201208703606108414904200137900153737681604201208703606108414902200137900153737681602200261069204260907308201230110635652876806200261069204260907306201230110635652876804200261069204260907304201230110635652876802200261069204260907302201055102543917439602200006790163424954604201340726606376744902200006790163424954602200821257196027911302201034820920129066602200055863202318274202200808613121694216310200992798643480279908200808613121694216308200992798643480279906200808613121694216306200992798643480279904200808613121694216304200992798643480279902200808613121694216302201062466073231417806201038890571829223004201062466073231417804201038890571829223002201062466073231417802200280356044560139102201191659361687179904200177658435178102504201191659361687179902200177658435178102502200460052571342162406200859650702947704004200460052571342162404200859650702947704002200460052571342162402200829205651813275802200378153604559277704200894525974722795104200378153604559277702200894525974722795102200502232276569796606201042568090712023006200502232276569796604201042568090712023004200502232276569796602201042568090712023002200132718460477712502200006814324135833804",
    "26580580884267112160200051436125032551108201282906972158959906200051436125032551106201282906972158959904200051436125032551104201282906972158959902200051436125032551102201132483921403756704201192940925283248002201132483921403756702200026900115744847602200468445705953146206200658790295638551804200468445705953146204200658790295638551802200468445705953146202200826726933952729202200179784455657358606201162260344123299602200179784455657358604200220149025372653908200179784455657358602200220149025372653906201129097622785131702200220149025372653904200861588520549957106200220149025372653902200861588520549957104200642903530856205504200861588520549957102200642903530856205502200684455862463457302200551598970825070902200964016864895382110200989300855198115808200964016864895382108200989300855198115806200964016864895382106200989300855198115804200964016864895382104200989300855198115802200964016864895382102200127301943378643102200582938822368392202200893366574118951402200633442011886936702200113945526673599806201195454125973722304200113945526673599804201195454125973722302200113945526673599802201135357013385792008201137130612301447806201135357013385792006201137130612301447804201135357013385792004201137130612301447802201135357013385792002200050031244401551202200772079831641717008200659895706516994308200772079831641717006200659895706516994306200772079831641717004",
    "15967341673272559209201015922315616956504200437492464446324802201015922315616956502200375155741640090202201287215506373968310200058236023621000210201287215506373968308200058236023621000208201287215506373968306200058236023621000206201287215506373968304200058236023621000204201287215506373968302200058236023621000202200856046342267291904200520635642786617304200856046342267291902200520635642786617302201081288021722911104200214730463709313404201081288021722911102200214730463709313402200908908781433604704200697611310284441204200908908781433604702200697611310284441202200593387663075942902200470192162276167602201317351546686480504200030166562933705304201317351546686480502200030166562933705302201034988695173112402200605158052112354704200537273762083464504200605158052112354702200537273762083464502201038807085106282604200833587301097792704201038807085106282602200833587301097792702200872378336368626906200999177250557942504200872378336368626904200999177250557942502200872378336368626902200118068936579409302201301252235971825702200067937763873584002200140441506305155206200283959031375789808200140441506305155204200283959031375789806200140441506305155202200283959031375789804200995371152785400402200283959031375789802201136933795798989002200256892543945455502200493310361663898704200979241013296773302200493310361663898702200586952452466837702201130417294138546202",
    "15965002303835657906200722684700557977902200251707343267850202201030041536011014902200409599871179229002200833497281390376302200454838833307785502200878855756259748002200942858510231872702200284917554672492602200005469900037136414201331600770619855012200005469900037136412201331600770619855010200005469900037136410201331600770619855008200005469900037136408201331600770619855006200005469900037136406201331600770619855004200005469900037136404201331600770619855002200005469900037136402201225789895475163302200052955894412798902200839109374279739402200821636904355003202200491269582700715802200595873974452759306201066794996168511804200595873974452759304201066794996168511802200595873974452759302201340443006436488502200000967391179937602200980231300866348802200525427986593574402200922562393279995902200239784720932853802200875603300961931902200572162645328709402200532890035724034102201293012664223433304200123959553474452804201293012664223433302200123959553474452802201284102685267002704200032836282845339804201284102685267002702200032836282845339802200521476661940323204200782084703209639002200521476661940323202200683275292555800502200619694761796921402200625014426386489802200939846756501325802200349520976175220302201212365645604120008200138037873951920408201212365645604120006200138037873951920406201212365645604120004200138037873951920404201212365645604120002",
    "10204361824398357791200355688770780601610200369277633272979704200355688770780601608200369277633272979702200355688770780601606201148910393092498504200355688770780601604201148910393092498502200355688770780601602200417067262227414802200805913493761932608200410086736612803004200805913493761932606200410086736612803002200805913493761932604200536363906625566804200805913493761932602200536363906625566802200711088026696464602200732315573857311404200363779744363216006200732315573857311402200363779744363216004201016781365862197502200363779744363216002200855512801955308204200954694880364603904200855512801955308202200954694880364603902200454895265104490302200816490211212845702201182059003838511402200084446200854134902200255432824876183206200905206374896730404200255432824876183204200905206374896730402200255432824876183202200279969463552531004200991347810681846404200279969463552531002200991347810681846402200357444976058560702201200890462338786802201216822591598180002200018874853012885202200928308435755175202201205906640605432404200050033001131158004201205906640605432402200050033001131158002201111006161081319402200912298615491175004200524130780109412504200912298615491175002200524130780109412502200650195113998471102200297218154110882404201186597163391703702200297218154110882402200683488484424302302201333975124835265606200018102580848891706201333975124835265604",
    "25334365634603610464200551572130660337904200467405022751582304200551572130660337902200467405022751582302200966904876648566902200545919441031690402200649848481522506106200514899900052207904200649848481522506104200514899900052207902200649848481522506102200633554882539064702200293976771498713610201207221695006350610200293976771498713608201207221695006350608200293976771498713606201207221695006350606200293976771498713604201207221695006350604200293976771498713602201207221695006350602200529348383305379606201212165951750533106200529348383305379604201212165951750533104200529348383305379602201212165951750533102200218587302613466102200538205171959577002200114760902679688408201309013712816720706200114760902679688406201309013712816720704200114760902679688404201309013712816720702200114760902679688402200651873393858349602200635935324803431602200551778765255124502200621895904843665902201072238215678146002201012203460316794704200388931563661291004201012203460316794702200388931563661291002200380729936603738306201215638621233078208200380729936603738304201215638621233078206200380729936603738302201215638621233078204201216249590122489502201215638621233078202200029916874681498102201227067780699190804200278937776026490704201227067780699190802200278937776026490702200793933115267059702200318227355759479102200913392583215395302200542092686633703202200880514912099679602",
    "03038016681158362739200392713041725998206200927766146546489904200392713041725998204200927766146546489902200392713041725998202200695778434437178802201062156600071707002200231082483108227502200912403932919106602200816561955086447802200255849655053806702200604874061783190106200633251861454355606200604874061783190104200633251861454355604200604874061783190102200633251861454355602200718317555509894902201275988330831772802200115919762100564702200170079905135980102201026020056658015804200985635713860221502201026020056658015802200682346936275451302200164553514768130302201274510532482020804200165131151692223404201274510532482020802200165131151692223402200651592625256965702201079410501438418002200459574403307360302200572195222574609902200317881225616732902200815987252905928006201305120063683913206200815987252905928004201305120063683913204200815987252905928002201305120063683913202200026691701762393302200812501600666157702200448930250009843104201087328621158250102200448930250009843102200385696861647167004200000975870200698306200385696861647167002200000975870200698304201341229575361875602200000975870200698302200388267255474793906201104569900491622602200388267255474793904201247673191273394906200388267255474793902201247673191273394904200140640924240181604201247673191273394902200140640924240181602200893005142274186404200437778754800000104200893005142274186402",
    "26834529124820300948201281343473307948004200326056485333245802201281343473307948002200035802285288791902200703196415839856404200794658651754474506200703196415839856402200794658651754474504200996126504986662204200794658651754474502200996126504986662202200258395574203744406201133607544485164604200258395574203744404201133607544485164602200258395574203744402200231774344096888306200799909842976627606200231774344096888304200799909842976627604200231774344096888302200799909842976627602200450677192180616302200601578092664869602201078053976212124802201209562482530109002200200224863664791802200531595192804032202201313343732991474506200041494841027005206201313343732991474504200041494841027005204201313343732991474502200041494841027005202200021411713674646104201320719741544386302200021411713674646102201332369034933103304200014518434886837904201332369034933103302200014518434886837902201122397886472055904200861428374968347902201122397886472055902200109435434275345802200775655991547026604200938416635305789508200775655991547026602200938416635305789506200409408040789357806200938416635305789504200409408040789357804200938416635305789502200409408040789357802200592244603924776302200339815135532535708201135351835289650506200339815135532535706201135351835289650504200339815135532535704201135351835289650502200339815135532535702200097841533805950206201192035411041960804",
    "23405166511682147719201334758943800803902200005862201102657102201217559154201783302200571795355796442102200212753475153020902201090989764452075202200439027641518703602200760831630590056602200779067825739436702200740837182930798902200189109465552196602200362398272660714404200915688736700684316200362398272660714402200915688736700684314200906469493477036904200915688736700684312200906469493477036902200915688736700684310200362731771404932006200915688736700684308200362731771404932004200915688736700684306200362731771404932002200915688736700684304200238374682613374704200915688736700684302200238374682613374702200738682532430768104200000135896346455514200738682532430768102200000135896346455512200137934314666091006200000135896346455510200137934314666091004200000135896346455508200137934314666091002200000135896346455506201341624461938666204200000135896346455504201341624461938666202200000135896346455502200469634103968260606200861355375045855104200469634103968260604200861355375045855102200469634103968260602201253761564319212502200065445162597894302200072777660078363906200401613011153935104200072777660078363904200401613011153935102200072777660078363902201141988014618616204200354784645033761204201141988014618616202200354784645033761202200480922021680711002201195604265080601002200303929743910812202200222157492306818602201340705135195271002200001472853294197902",
    "13348523026005833249200626520134648395006200990945533104136506200626520134648395004200990945533104136504200626520134648395002200990945533104136502200164863215744969502201318545120260443702200241420690867703402200158719813494877202200951978543853953402200321105734651763102201040752004086423602201006353133869421008200981641903433762804201006353133869421006200981641903433762802201006353133869421004200369575405493304504201006353133869421002200369575405493304502200839835752475587004200710727455090766604200839835752475587002200710727455090766602201191798156596306402200043424322253301202200183049272861051506200502489084006880102200183049272861051504201307033702051895602200183049272861051502200807999415391283202200145091183397163402201232470766600114002200217532565817927802200836498651407274602200509040200961053402201107316464657620412200199896610787964712201107316464657620410200199896610787964710201107316464657620408200199896610787964708201107316464657620406200199896610787964706201107316464657620404200199896610787964704201107316464657620402200199896610787964702201253108153453531402200129561625642298602200504097365334294806201265963145654396602200504097365334294804200632155933770256004200504097365334294802200632155933770256002201053851791676997302200211517812834335102201038127281116670602200340828263495403202200943912981175670010200938299133418781410",
    "07715273654993259814201137033556545155802200326444932673807802200001198505628698806201340311123671253104200001198505628698804201340311123671253102200001198505628698802200111178156619011108200646718533589985902200111178156619011106201288909390286760404200111178156619011104201288909390286760402200111178156619011102200700814521439983002200714016900023136802200594035186585576006200943103925456498904200594035186585576004200943103925456498902200594035186585576002200344583104614882202201027550806350129604200862158752542058604201027550806350129602200862158752542058602200292555305572123402201172322485436811902200759846635438438002200075484843771772602200283338261552789106201072208184426869104200283338261552789104201072208184426869102200283338261552789102200030899744772316104201278712883834050002200030899744772316102200340102350289535104200440026103762718402200340102350289535102200837346630381000804200964271065337739404200837346630381000802200964271065337739402200396079724890692902201234788311870087102200098225240951088602200537779062365342902200796393455731876302200793023262905076504200437020970737443504200793023262905076502200437020970737443502201326574140120197802200183783783138843202200226314781349538602200750954063956562416200336653334559090114200750954063956562414200336653334559090112200750954063956562412200336653334559090110200750954063956562410",
    "00146002415051839368201215748004447119202200179769281942869402200878834856114547402200296960563875976506201044024114158843806200296960563875976504201044024114158843804200296960563875976502201044024114158843802200391295690214361002200769233931442117304200974818120557845102200769233931442117302200380276931437524202200799308235687137602200674636645933301902201143153960335062704201209767860969047702201143153960335062702200074060603314681202200854148075986545006200502752863282942604200854148075986545004200502752863282942602200854148075986545002200632088160686657302200667660021884209902200533038013730001002201134554383868215802200316632835037489002200903572755046514002200426962152908594502201174380262930723502200091636870478109402200060948282087833808201288179211499236406200060948282087833806201288179211499236404200060948282087833804201288179211499236402200060948282087833802201062460965723499702201140363991358547302200052837762958770202201237107650463789202200136266840898179102201226851675835363402200062494353211099002200056026321914343604201247939083679024102200056026321914343602200086224281506932506200927758405000966802200086224281506932504201282148374835787802200086224281506932502200196934382617710504201050623575190501802200196934382617710502201136545763508035502200245403845045143702200087232431360461710201247990713701366408200087232431360461708",
    "03457125531776664838200112273094047184604201285158410114123702200112273094047184602200612282640008449302201306843885430553604201294382954873510202201306843885430553602200007781254009540202200203176693692173510200949085254219201010200203176693692173508200949085254219201008200203176693692173506200949085254219201006200203176693692173504200949085254219201004200203176693692173502200949085254219201002200362344701476384602200617871646350884204200870142813716318306200617871646350884202200870142813716318304200771181632550721304200870142813716318302200771181632550721302200404800775628107302201241852516165997304200777602184692679102201241852516165997302200046550292968034702200392403712622186004200788510673054365210200392403712622186002200788510673054365208200522015492148672508200788510673054365206200522015492148672506200788510673054365204200522015492148672504200788510673054365202200522015492148672502201064541762641863404201263933455104474402201064541762641863402200149566376564219702200230758706099608102200768275810803750602201096697265162668402200186226102674372402201142970975314993104200125803725036192704201142970975314993102200125803725036192702200386466771094922406201282182043122036406200386466771094922404201282182043122036404200386466771094922402201282182043122036402200098613992268795002201141954154315163602200169283952837331802200658083564616379512",
    "04064315095825848088201229368720296450104200087335482801401704201229368720296450102200087335482801401702200549550406111568804200564041571992075302200549550406111568802200306421045867457304201031994711254899202200306421045867457302200970546781158403202200343495251072236902201331335984072911002200021530720987773302200804628321684520102200711866590232201602200187484715034373604201190887950655010902200187484715034373602200832106553598286604200794889876063435402200832106553598286602201190430385630197102200054415216161057802200989502283611604102200333635750164962802201211908982915388302200133072405281382502200772852832602336604200509566996548283704200772852832602336602200509566996548283702201090721974939374702200197367304995123802201011121464445899604200669678644118621204201011121464445899602200669678644118621202200355907932391952902200936572285674442906200551544935457842304200936572285674442904200551544935457842302200936572285674442902201227139344117782502200070741204966921302200825874092232208002200618029393795770402200420562543958130702201025698144494480102201330302970513210502200002981805680094002200703737845624768908200995373070635143406200703737845624768906200995373070635143404200703737845624768904200995373070635143402200703737845624768902201301590505713915306201221226575073054104201301590505713915304201221226575073054102201301590505713915302",
    "12655388552572744363200869522596282438702200163178573990536702201187356943497069702200110640991475484102200247885584865508704201124104586600193702200247885584865508702200935583284893058002200350334570803584806201043937883530430504200350334570803584804201043937883530430502200350334570803584802201153252462081214302200610785753661788002200109516244030489502200231793255291157308201097500043803416202200231793255291157306201189833203104446704200231793255291157304201189833203104446702200231793255291157302200519257665650334504201116945954216851608200519257665650334502201116945954216851606200262055600896550106201116945954216851604200262055600896550104201116945954216851602200262055600896550102200008866030052971508201335025760998948306200008866030052971506201335025760998948304200008866030052971504201335025760998948302200008866030052971502200475060006151134602200888482502170949402200256124844929058404201203689072863830202200256124844929058402200834693026559845102200382493461027359002201231947184798417814200835142850465428102201231947184798417812201037841123214666208201231947184798417810201037841123214666206201231947184798417808201037841123214666204201231947184798417806201037841123214666202201231947184798417804200248414153785456604201231947184798417802200248414153785456602200076764545749692402200825847542679267804200879210735786273302200825847542679267802">>

CorrelationTable ==
  (9 * (Unit \div 10) :> [uniform |-> UniformCorrelationTable,
                          normal  |-> NormalCorrelationTable,
                          beta    |-> BetaCorrelationTable])
CorrelationRow(row) ==
  [p \in 1..Positions(row, 21) |->
     <<Cell(row, p, 21, 0, 1) - 1, Cell(row, p, 21, 1, 10), Cell(row, p, 21, 11, 8),
       Cell(row, p, 21, 19, 2)>>]
Correlations ==
  [scale \in DOMAIN CorrelationTable |->
     [distribution \in DOMAIN CorrelationTable[scale] |->
        [seed \in TableSeeds(CorrelationTable[scale][distribution]) |->
           CorrelationRow(RowOf(CorrelationTable[scale][distribution], seed))]]]
CorrelationAt(scale, distribution, seed, p) == Correlations[scale][distribution][seed][p]

(***************************************************************************)
(* Double-precision arithmetic (IEEE 754 binary64, round to nearest, ties  *)
(* to even), as Python floats and numpy float64 have it.                   *)
(***************************************************************************)
\* A natural number of any size is the sequence of its digits in base 2^13,
\* least significant first, without leading zeros.
Base == 2 ^ 13
RECURSIVE Digits(_)
Digits(n) == IF n = 0 THEN <<>> ELSE <<n % Base>> \o Digits(n \div Base)
RECURSIVE ToInt(_)
ToInt(a) == IF a = <<>> THEN 0 ELSE a[1] + Base * ToInt(Tail(a))
RECURSIVE Strip(_)
Strip(a) ==
  IF a # <<>> /\ a[Len(a)] = 0 THEN Strip(SubSeq(a, 1, Len(a) - 1)) ELSE a
\* the sum of a[i] * b[j] over i + j = k + 1, from i on
RECURSIVE Convolve(_, _, _, _)
Convolve(a, b, k, i) ==
  IF i > Len(a) THEN 0
  ELSE (IF (k + 1 - i) \in DOMAIN b THEN a[i] * b[k + 1 - i] ELSE 0)
         + Convolve(a, b, k, i + 1)
\* the digits of the number whose digit k is coefs[k] before the carries
RECURSIVE Carry(_, _, _)
Carry(coefs, k, carry) ==
  IF k > Len(coefs)
  THEN IF carry = 0 THEN <<>> ELSE <<carry % Base>> \o Carry(coefs, k, carry \div Base)
  ELSE <<(coefs[k] + carry) % Base>> \o Carry(coefs, k + 1, (coefs[k] + carry) \div Base)
BigMul(a, b) ==
  IF a = <<>> \/ b = <<>> THEN <<>>
  ELSE Carry([k \in 1 .. (Len(a) + Len(b) - 1) |-> Convolve(a, b, k, 1)], 1, 0)
BigAdd(a, b) ==
  Carry([k \in 1 .. Max(Len(a), Len(b)) |->
           (IF k <= Len(a) THEN a[k] ELSE 0) + (IF k <= Len(b) THEN b[k] ELSE 0)], 1, 0)
\* a - b for a >= b, from digit k on
RECURSIVE Borrow(_, _, _, _)
Borrow(a, b, k, borrow) ==
  IF k > Len(a) THEN <<>>
  ELSE LET d == a[k] - (IF k <= Len(b) THEN b[k] ELSE 0) - borrow
       IN <<IF d < 0 THEN d + Base ELSE d>>
            \o Borrow(a, b, k + 1, IF d < 0 THEN 1 ELSE 0)
BigSub(a, b) == Strip(Borrow(a, b, 1, 0))
RECURSIVE LessFrom(_, _, _)
LessFrom(a, b, k) ==
  IF k = 0 THEN FALSE
  ELSE IF a[k] # b[k] THEN a[k] < b[k] ELSE LessFrom(a, b, k - 1)
BigLess(a, b) == Len(a) < Len(b) \/ (Len(a) = Len(b) /\ LessFrom(a, b, Len(a)))
\* a divided by d <= 2^17, from digit k down: the quotient, and whether
\* nothing remains
RECURSIVE DivFrom(_, _, _, _, _)
DivFrom(a, k, rem, d, quot) ==
  IF k = 0 THEN [quot |-> Strip(quot), whole |-> rem = 0]
  ELSE DivFrom(a, k - 1, (rem * Base + a[k]) % d, d, <<(rem * Base + a[k]) \div d>> \o quot)
BigDiv(a, d) == DivFrom(a, Len(a), 0, d, <<>>)
\* the number of binary digits
RECURSIVE BitsOf(_)
BitsOf(n) == IF n = 0 THEN 0 ELSE 1 + BitsOf(n \div 2)
Bits(a) == IF a = <<>> THEN 0 ELSE 13 * (Len(a) - 1) + BitsOf(a[Len(a)])
\* a * 2^k
ShiftLeft(a, k) ==
  IF a = <<>> THEN <<>>
  ELSE [j \in 1 .. (k \div 13) |-> 0]
         \o Carry([j \in DOMAIN a |-> a[j] * (2 ^ (k % 13))], 1, 0)
\* a divided by 2^k: the quotient, and whether nothing remains
ShiftRight(a, k) ==
  LET drop == Min(k \div 13, Len(a))
      q    == BigDiv(SubSeq(a, drop + 1, Len(a)), 2 ^ (k % 13))
  IN [quot  |-> q.quot,
      whole |-> q.whole /\ \A j \in 1 .. drop : a[j] = 0]

\* A double is <<sign, exp, hi, lo>>: (-1)^sign * (hi * 2^26 + lo) * 2^(exp - 52),
\* with 2^26 <= hi < 2^27 and lo < 2^26 (a mantissa of 53 bits), or
\* hi = lo = 0 for the zero of that sign.  (A subnormal value has exp = -1022
\* and hi < 2^26.)
Zero == <<0, 0, 0, 0>>
IsZero(d) == d[3] = 0 /\ d[4] = 0
Neg(d) == <<1 - d[1], d[2], d[3], d[4]>>
\* abs(d)
Fabs(d) == <<0, d[2], d[3], d[4]>>
\* the mantissa of d as a natural number
Mantissa(d) ==
  Strip(<<d[4] % Base, d[4] \div Base,
          d[3] % Base, (d[3] \div Base) % Base, d[3] \div (Base * Base)>>)
\* the double of sign `sign` with the mantissa m, of at most 53 bits
Limb(m, k) == IF k <= Len(m) THEN m[k] ELSE 0
Pack(sign, exp, m) ==
  <<sign, exp, Limb(m, 3) + Limb(m, 4) * Base + Limb(m, 5) * Base * Base,
    Limb(m, 1) + Limb(m, 2) * Base>>
Odd(a) == a # <<>> /\ a[1] % 2 = 1
\* the double of the mantissa m after rounding: a mantissa that the rounding
\* carried to 2^53 is halved, none is the zero
Carried(sign, exp, m) ==
  IF m = <<>> THEN <<sign, 0, 0, 0>>
  ELSE IF Bits(m) = 54 THEN Pack(sign, exp + 1, ShiftRight(m, 1).quot)
  ELSE Pack(sign, exp, m)
\* q.quot keeps one bit more than the mantissa, t is q.quot without that bit:
\* t goes up when the bit is set and more follows below it, or nothing
\* follows and t is odd
TiesToEven(sign, exp, q, t, inexact) ==
  Carried(sign, exp,
          IF Odd(q.quot) /\ (~q.whole \/ inexact \/ Odd(t)) THEN BigAdd(t, <<1>>) ELSE t)
Nearest(sign, exp, q, inexact) ==
  TiesToEven(sign, exp, q, ShiftRight(q.quot, 1).quot, inexact)
\* Round, for a that loses its last `drop` bits
RoundAt(sign, a, e0, inexact, drop) ==
  IF drop <= 0
  THEN Pack(sign, Max(e0 + Bits(a) - 1, 0 - 1022),
            ShiftLeft(a, Min(53 - Bits(a), e0 + 1074)))
  ELSE Nearest(sign, e0 + drop + 52, ShiftRight(a, drop - 1), inexact)
\* the double nearest to (a + t) * 2^e0, ties to even, for a natural number
\* a > 0 and 0 <= t < 1, t being nonzero iff inexact (a has more than 53
\* bits when inexact).  The mantissa keeps 53 bits, and fewer below 2^-1022,
\* where the doubles are the multiples of 2^-1074.
Round(sign, a, e0, inexact) ==
  RoundAt(sign, a, e0, inexact, Max(Bits(a) - 53, (0 - 1074) - e0))
\* float(n) for an int n, exact as abs(n) < 2^53
FromInt(n) ==
  IF n = 0 THEN Zero
  ELSE Pack(IF n < 0 THEN 1 ELSE 0, BitsOf(Abs(n)) - 1,
            ShiftLeft(Digits(Abs(n)), 53 - BitsOf(Abs(n))))
\* the quotient d of a division by q, scaled by 2^78, as a double
Quotient(sign, d) == Round(sign, d.quot, 0 - 78, ~d.whole)
\* p / q for ints p and 0 < q <= 2^17
Divide(p, q) ==
  IF p = 0 THEN Zero
  ELSE Quotient(IF p < 0 THEN 1 ELSE 0, BigDiv(ShiftLeft(Digits(Abs(p)), 78), q))
\* the double u of rng.random(), given in units of 2^-53
FromUnit(u) ==
  IF u = <<0, 0>> THEN Zero
  ELSE Round(0, Mantissa(<<0, 0, u[1], u[2]>>), 0 - 53, FALSE)
\* abs(a) < abs(b)
FabsLess(a, b) ==
  IF IsZero(b) THEN FALSE
  ELSE IF IsZero(a) THEN TRUE
  ELSE a[2] < b[2] \/ (a[2] = b[2] /\ (a[3] < b[3] \/ (a[3] = b[3] /\ a[4] < b[4])))
\* the sign and the magnitude of (-1)^sa * x + (-1)^sb * y, for x # y when
\* the signs differ
Sum(sa, x, sb, y) ==
  IF sa = sb THEN <<sa, BigAdd(x, y)>>
  ELSE IF BigLess(y, x) THEN <<sa, BigSub(x, y)>>
  ELSE <<sb, BigSub(y, x)>>
\* a + b for the mantissas x and y of a and b at the exponent e0
AddAligned(sa, x, sb, y, e0) ==
  IF sa # sb /\ x = y THEN Zero
  ELSE Round(Sum(sa, x, sb, y)[1], Sum(sa, x, sb, y)[2], e0, FALSE)
\* a + b; an operand of less than 2^-64 of the other does not change the
\* rounded sum
Add(a, b) ==
  IF IsZero(a)
  THEN IF IsZero(b) THEN <<IF a[1] = 1 /\ b[1] = 1 THEN 1 ELSE 0, 0, 0, 0>> ELSE b
  ELSE IF IsZero(b) \/ a[2] - b[2] > 64 THEN a
  ELSE IF b[2] - a[2] > 64 THEN b
  ELSE AddAligned(a[1], ShiftLeft(Mantissa(a), a[2] - Min(a[2], b[2])),
                  b[1], ShiftLeft(Mantissa(b), b[2] - Min(a[2], b[2])),
                  Min(a[2], b[2]) - 52)
\* a - b
Sub(a, b) == Add(a, Neg(b))
\* whether d is a power of two (and no subnormal)
IsPowerOfTwo(d) == d[3] = 2 ^ 26 /\ d[4] = 0
\* a * b; a factor that is a power of two only moves the exponent of the
\* other, as long as the product is no subnormal
Mul(a, b) ==
  IF IsZero(a) \/ IsZero(b) THEN <<(a[1] + b[1]) % 2, 0, 0, 0>>
  ELSE IF IsPowerOfTwo(a) /\ b[3] >= 2 ^ 26 /\ a[2] + b[2] >= 0 - 1022
  THEN <<(a[1] + b[1]) % 2, a[2] + b[2], b[3], b[4]>>
  ELSE IF IsPowerOfTwo(b) /\ a[3] >= 2 ^ 26 /\ a[2] + b[2] >= 0 - 1022
  THEN <<(a[1] + b[1]) % 2, a[2] + b[2], a[3], a[4]>>
  ELSE Round((a[1] + b[1]) % 2, BigMul(Mantissa(a), Mantissa(b)), a[2] + b[2] - 104, FALSE)

\* NpNormalAt(s, p + 1) is the standard normal deviate z the ziggurat sampler
\* returns when it starts at output p, and the number of outputs it took.  An
\* entry is the sign bit of z, its exponent plus 1100, the two halves of its
\* mantissa, and the outputs taken.
NpNormalTable ==
  <<"00000000000000000000010970675008983116345701110970709232582918138901010990859560730686090901010961126356430870526601110990718963261509066901010980970649333033136601011000875099614594489201010991271150550692957101110990944537443110890401111000849209972705221901110990836544821893708301010950887468645944445101111010780150870171302701110971174628801029875201111000836116682116057401110990982832604273944701110990730492040823419901110980849061764750135201010981104962304933272801011000699618876228443501110970690065214820942001011000917018111383025601110990892809175053801501010980943577656402264201010991212617150651311901010961009449360511319701110990997907800120619201110991237118855646205601110981228698404939136501010971182163565068853501111000677543292489927201110971123002814358726601110970854832761919277901010990725910653861180501010971152442385832424401010980953946351349469701110990877553903070424801110970695857894887344401010991052234062680084201011001002224674147222301111000844944573765230301011001015977044733392101011000903201705204621501010991048658410419490701010980709892674826563601110980842680135831018201011000978461115104761901011001315507085123826501011001209056693083675701011000882551194653642901010980959335733360168401111000810888905116985501110920765214242222322401010990881105741844777701111000864604741701946401010981060647702688494001010981153906566291121801010990934212730008236701111000794648113966568201110990888122155575643301110981171546943901463001111000785040770910463801011001167270022095775401110981331200223520941901",
    "00000000000000000001010980927670501230121701010991102757203384323101010980887010271507226601111000874534012861210301010991215148073062424301010981198227615901139901110990720686431961637401010990779963514327862601010980978641572786507001010980789555905799176201010941220725966243588701010990733785746249291801110990988451942239275601110970874616122368291101110981294179173661839101010990803757780545089101010950853025761885498901110980785057612050793201110991049459772157609501110980690395162618509201010930699407980596110501110980739815913751125901011000868431523541808101011000675601251082799301111010909715170277931501111001267695330119743001110970938300523045419201110981133308754364264901010971146987106103504801010971166738232051419302110961316239274612121101011010710628763310648401111000746264500863641301110981013625721852332001011010685440406678218401010990867990065643885801010990889948592418333701110990689887672586474901111001106004523373755601010970899069496433794201010961170529853350105901111000823662020593374901110990917011301699273601110960773563120523348501110991268024162493295301110961055165743530336501010961025241200510658201010950764208621144254701110990679533160565725301010990796915171338647601010991196104035854939601010980861270606329388701110991098210020679479801010990982007071447491901110990673021400046478301010991179989404923701101111000719264356684980401010991227377102244519701110940861718812806953501111000838021193030657801110980842617476010135601010951161837586586252001010980732268673499464201110991318270584014171501",
    "00000000000000000002010971014972613356639701110990701621080879709101110981108809004210267401111010819220511818697301011001207763176622389701011000767836716039715801110980873550274076381001010991038585616590235901010980754869142544750701110990743328425498577901010991312068821723943201110980833643881451127801110980882679944224499701110991063201375011979501010981221268772110033701110961065130966632197701010990731874121962138901110990814950850743075001010970680901816348137101110991197589945788272301010991129395165255317801010971009505684263561701010980887369792074912001010981101938050456050501111000678307874125652301010991051167736142036901011010690114945786645401111001099540150815053401111001160588386370715401111001009875264670430401010991129387005937724701010970691036922796981701011000723663361348899001010990969630302135207001010971130498806384802901010980762459090279693201110970911394731571646901010991165627562732733501111000758139545622205301110981132418662501825701010971304268034183244401011001208913072660460601110991026046365029950801111000724145214026522601110990756031276675298301010991300935124364245301110971261676205436064901011000888754240018645101111001256633284919135201011000757339060339919001011000694486975057476901111000952050425626098701010970824536473296657001011000815881135350131701010960944023525729484601010991341776533755283101011010796879812956749401010980735331294527165101110980752645541997211401110991034888690405809301010990869817582795259301110971056186500961615401110970959637270703987502111001224935115441455501",
    "00000000000000000003011010684818815878863001111010857538883409194601010981122325543851435101110990762047463771153301110981215071190910968101110971157478453842757501111010677794871418779701110971245177470725879301110991161269332238170401011011115013612129321201010971212182646449602201110980946586080528337201110980755075162405990001110990896636625190501001111000708099545639490201110981049048383551604101010981293712300878563901110971280724922160452901010991285481970560267801110971072679511687899301010941041940384157114201011001037382811828077901010990731628245203541501110990678106530096812501110970981609270278037201010990725480550745111201011001298615594753772301110980723756553468829101110971307595701091956401011000672641271029185501110991189786393583768602110991275135153353918801110980783080534156863201010991184523750560192601010990778932604146694901010960982653116099253701010990899398840187799701111010948973795435497001011000685387402133294701110991288013392339109601111001119791820593919201010980742078433464735901010990940255425862735201110981193913545235618701111000722363730886715101010941122053054309186401110951132739816225010501011000943280961086879001010991003154016499700601010971040539825167086801011000746004413941041701110971103393471610239101110991242721370880821501010990783909793525404001010990781869830165622001110971153353932957098501110991050667885323306001010971230260660538252101111010836812056588128901010990926269784615578701010981319006630919449201111001099818411240005501010951317556590838059601110991293992662725087801",
    "00000000000000000004110990874819274254985501110970938006320490636801011001116506270481902001010990884693132676285701111001101523075450910701110920893913975392771801110990836798865407918401010970797959412954567001111001079236551982568501010971298002880233719801010971263691683422385801011001057384730390531701010980849987492595519801010990685244126516553201111001002013643673509201011010755890461543315301111001285567971484634001011000739406706021938101110980885579503399631301110991181983745418236601110990880850830586194101110990901962834165113901010981020562322309109701110961181746241442272101011000994936663693409701111001227826473914103401110911058611395635074401110991197297011058795901010991041357563925756601111010710703014411844101110980922597493983433601010971128357311185429701111000996075783643230901010991322333970814847201010970959460414546227701011000675690140623178801010991287396123109113201110991315138534491155501110991070783340214559701110971091632970507264903010991277630663869084201110971091632970507264901010991003894550364230301010991142148962664572501110990952522906324966601110990814966264381978401110991070819790134138601110990784151274887152701110971277341404692888201110970707676645830389601011010690588616586215501110990679683484478977001110980775038570817389701010981230985215508294501110991279194354674255901110980989525965829439101010931144048820254249301010991039041101000362501111000883162621191956101011000920377571940980601110980946120534941600703011000785586394017494601110980946120534941600701010970909547483393556001",
    "00000000000000000005110991076334136102340101111000888762274863955001110971333381303758602601010981128624091363295201011000762387921654361101010961177963492095613101110990741750675017467101110991053314361834365101010991004949561326109501011001097084326035860701010980732208104875054101111000827672853904009501110991286161784664637001011001073754632959804701010971089216805802516501111001162416013831510301110960898681024947326301111000780627734383358001110990844616181626666101110981309980654710898901110990957393000620752901010990742732010100219501110960677380463784086101110990791121241780518701010981099613165145294301010991113812935922446401111001102614316579923901110980689154683622932501110991316336815840044401110970929620033283262401111000865314272113628201010940888645654917788501110950813590092580328901110980816950426419341901111000703251572107955901110981063515320156601301111000732378425658396001111000909465192957248601010971206809211277288601111000744472140740614301011000785372415997548201010990961787670565272301111001340712084768340901010980730490371016737801111000739349512193620901010950709898394954104701010950936989903841918201111001334412641556597401110971253177631445998901110980686631134824791201010991291175254823595801111000792855531062788301010990990583064681889101111000737508134659465201110980889302215707939201110991128063990742160401011000972227110273731601010990762642711834904401011010815954026099588301010990861565576485506501010991134130046014945401010991128345454166380501110990814180220861479601110960751924720170343201",
    "00000000000000000006011000706734016335809901011001192183132047070401111010856742572480751901110970740694282190177803111000849853844545335101110970740694282190177801011000680295576417732801011000907407015826873401010990877499913685174001011001004698782424571101010980778348981738705701010990739898216355430301010970959590652246452901111000720654373707946901110991136326162063527001010981018938701124079501110990778724815073558201011000853323682629048201011000867305960886683401011001207145075065436001110941119862793591317801011000928591895716414801110991215802081916412701110991095639082362552301010960872984916455411101010980755460146244644301111001073062900661004401111001161469341743433101010980953156330452662601110991157209241634243101011000810914691637561501010981059101882030249501010980824592404480638601010971119067836012257901010991201886322443097701110970821660234539084501011000728554622917925601110990705870250627069601110971207947294680630901110990913358611352572701010990802168196299162301010950770608312810850401110991157315252081531601011010671719442750684201110980976337411062035701110961248759310415243201010981058078002916646401011001172828672402398501110970796628564016513701010990943796575243221301010961060806860197156701111000982335300762360501010991062973882998295301011000684939425543791301110971288416503473574601110931325971276030709301111001007516201701565901111001022035764473862501110981050978340703539101010990840113554481143101110981260504733300809101010980783892942311002101010991298915346121196701010961028240876688108401",
    "00000000000000000007010900845354950209621601010980801938943953055801110980735883201416124001110991195332131163289801110981220497593673870601110991330965473963800001010951291574030736918901011000899403224326144701110981321256811701200501110990832787312247207701010981314909740734429801010980958011265207121901010961131876876674605801110991248853066290366501110941256356205557673201010990933220150210276101111000902087111614479101110981228402953272349001111001275888981872352301111000865394125382784201111001235967461175748801110971262135896329545001111000850568933694235601010980728169715750230201010970841550985589758001110971003577864862071501111010844484423872628201110990723021363827058801110951041549871082753801010961216645972058778701111001026856726635975101110981282459183406863202010970788056332404974301110991313346073096515801110991085602964009727501011000711957012916575201110991083854692712975201110950698398293862693701010991187007984472073701110990783295240957125401110961199390550609695001010961186099704424451001010960684851584204950701111000822121045687292301010960817549495669282601011000911890961407054701111001038271215320713501010991153443915830362601010961281554091699129401110990860966985880990701011010671228406549299501010991023087664710667501111000804829155557209501010960800111912675445401010990774019654573322601110971013516315411357501010990916586643293793501110960714224284461567901010990895564514219304101011000965376166471846201110990906858521512261001010971090592110149532501110981243681803867781601010970683267080024178501",
    "00000000000000000008111001166530832231350001111000897005792846575101111000913423246674482201110980943865046523866001111010775973612418506901110971014134096282639301110991284771321142765501010991199369863769381401010991284258621818388501011000934328681021234501010991030080945955742301110951138805824954581801010991153995954993628701011001010311301196726001110990877239732070015401010990819199440506835501110950916413471386635201011000966378863916585001110991123261481153686301110980809458014321650401010980972645253246974401010980692859471517084701111001100214902328518701010980966784336686919201110961272359360128569701110971287136463025812401110970833769446135675301010971175595390050590401111001218962492783336901011001041842675209315201110991156207441297280901111010752078252580543701110960880194423568171401011000978098550820802801110990696054440537344301011001041043444495448601011001044846090019559701110991157939175286656801111010827157285154018201111000828917114306798601011000796872273574320301110991096253052932789201111001013798501617893101111000897711696406283801010870990353322990372801110941121350835134294401010991170438871296113901010991327480396137318901110991251243454896260901110970841591853650501801111000760970656584831701010960771920212336357001111000772159835653668201111000805475182688800001011010712502165973509401010950695546081816642901010990863259720339162401011010851644493058937801010991054735013287933201110961225596853990205201010951172310281924351401110990999240202298049701011000734398094045303001110980886585093604432701",
    "05280136735386738038111001021433842178927301110920915908201047010401010991139697075853087901010980758250674037118501110990961118363970743301111001055613156617148701111000708627692400427201110971087492625408947501010980674160433025683901010991104891030792085001110971081047933464728701010991018778575400559801010950682076043718744101010981025961584272953001110980702137780072052901010991090307143747485701011000720926580407174601010980882072796256557901111000960974401145726401010980780553600889910901010991209600642556737401110971110013462599162701110991092789722526544901010990973937450994491501110980672065013504485601110981089120606506760801110970810866702456314601111001124590324646365501110991058277913182467501111000730171665024880701010961297039972795983301010981169296741150268501110991027946670654071101110970881643063717931601110970792245474483655501110991072817212478215001010981209837000891974401111000751346242028257601010990859172325237131001010990925369730951553901011000890053653649364601010980962909075373866302110980889961306006174901111000747042850539154301010991275590545311958601010961196118733146489201110970955132653791025001111010683207931363744801110941088140356345662201011000690832026373908601110960900613816250997801011010772907143412619201010990870949523159196201010990927646432992742601110970920630786696726701110980700677733526085101011000737958883794544801110981048025302090009701011001152749515095433901111000671096985263198001111000762587271464680601111000832289934295192801010990892831316574166101111001023927185734592001",
    "02413141351714541017110980845228232603322501110990684017583088431601011001245451010752933701111010797426903393414401010980965298602000452401011000933054866394600501011000854026551315610401111000766600735044480601011001208643862572456101110990851614643980662101111010885539276290689801110960687414774821143601010990863013970107474301111000735186645691999701111001004398165241695701110960870136995829376201010990736268013381160501010980909413043016461301011000898619775480951801011010779514222860620801010960694853110818583501111000969283774628879601111000730516232510595401011010678144091438234601010971030522242837791301110991073182990000220401011000716597265982895401110960696728901845195101110941143644476441232101110991179911140322825601011000738903454492031501110960884600165221848501010971301331303678117501010991186489291536285501111000975905810382953301111001118214820262863401111000990704770393757901011000714720145647473501110890779048693297218601011000947972285257378901110990877015380115085501011010770521182344687001010990914608494996982601110990863945211119408201011000736478264000405501110990909817206232982501110990771162876024098101111000932279150416598201110971098388762519418901011000749201165223135801010980965737342327569501010991216924930759304901111010687976562659019201010990920833443877256301110960980512804769782601010980925491806335236001110981248040303414059701111000822118273364281701110990724935105105153001010991081147724740147101110971069095982527310302010950843706783510917801010931207085060110542501110980943362821630943601",
    "25875099980988603383111001158576790084725801010960795944721250623901010991014778651956723301011000853536724034208601010990911490875839631001010991196777641420338901110980908655723215228505011000779895932641575301110980908655723215228503011000766826960233854201110980908655723215228501110990893599284259198101110990864685094946584403110990785957403967021701110990864685094946584401011000853066986056214501010991198755552957892501110991236328646458211401010960781593596131231301010981137417475769326401110980685480412193857201010991078172083431113701110970871421523712944001111000812951461338584101011001010824332315812401011010877105925743117301110961064016536326574101010990977693671979557701110970761028192821695401110990703609810515843701010971309752915562360701111000976678164421161001011000958385583591511301110981097606985209190701110990971762561454214101010951200277891468369001010981114622543232936101010950730837355614041801011001153202924175326301111000704400005188859301110991296432623653930701010990770908093552244401110981170787383554001601110940876126110192950001110970996463351173211201010981053872871270921701110971198211221403680401111000842598686283772601111010677591215336507201111001051780292971115001111000947452640823934201011001019312923408909901110991297654671488880901010981189002770409787001010980714016716312888301010980789589206206599701110991299576323318013701011001202125813929592701110961175482784273145901010971030819512248661601110971015484714130641901010991095099463085998801010990788612834442770501110990692260550970744302",
    "03164327204265942064110911095384815707912801010961144721481022602801111000946330851060631501111000746394774880997701010971037073155133258201111000786447885290074601010990886259484433939801110971133208325446963701011001229940792364177901010970964250055250026701010981263217635719527601111011137590421617882302110970771657526092946701110951106569475825640201010970768218686171485801011000825418414838123101011000750444180377106701111000826045541357386101010990853049771744837001010971155477463520947401110981340061822263004201011001337294494521093301110980985909170909985701010980944066966362344401010990988596426371593601010990801668840696475001110981201439365345081101110991034627722080005401110980765272186574609801010991267360002906572601110961009177590426945401010981119457432022053901111010683444473205619401110951264516723692685301010991202325075712056901111001175910596428812701010991147440100496087801010991182943902094116501111000817937281766452101010940945149043077848001011000847622030092639901110990957223524467106501011000892662884866610001010961227066836665779601010961178822555193082601010970779918483976354601110990742902404764652601010970749427472639549301110970891571876351554501010990865535792833354301111000762805622994616401110991196652031352546001110990906150752437367101110990764898940319980601011000895271652617129201010941092032711974983201010971297870612893457401010981198608244230363801010990793030816308739501010981106991773290627501110991002067736030113501110990911748702414284201011000839594610137920501011000963317015932193301">>
NpNormalRow(row) ==
  [p \in 1..Positions(row, 24) |->
     <<  <<Cell(row, p, 24, 0, 1), Cell(row, p, 24, 1, 4) - 1100,
           Cell(row, p, 24, 5, 9), Cell(row, p, 24, 14, 8)>>,
         Cell(row, p, 24, 22, 2)  >>]
NpNormals == [seed \in TableSeeds(NpNormalTable) |-> NpNormalRow(RowOf(NpNormalTable, seed))]
NpNormalAt(seed, p) == NpNormals[seed][p]

\* rng.gamma(shape) starting at output p, and the number of outputs it took,
\* for these shapes noise_scale * max|signal| takes: 1/5^5 and 2^4/5^5 (power
\* effects), 1/5 (a linear effect), 0.5 (log(2, 4)), 1.0 (where the gamma
\* deviate is the standard exponential one), 3^(1/4) (a root effect), 2.0 and
\* 2.0 + 2^(1/6).  An entry is the exponent of the value plus 1100, the two
\* halves of its mantissa, and the outputs taken.
NpGammaTable ==
     (<<0, 0 - 12, 87960930, 14903537>> :>
        <<"0000000000000000000011000000000000000000002110000000000000000000021100000000000000000000211000000000000000000002016807425674739735672020688090977921484207090211000000000000000000002110000000000000000000021100000000000000000000207970851673201136826602018209130015958001732021100000000000000000000204060884583125028876002110000000000000000000021100000000000000000000211000000000000000000002043610611606860159294021100000000000000000000211000000000000000000002110000000000000000000021100000000000000000000211000000000000000000002110000000000000000000021100000000000000000000211000000000000000000002110000000000000000000041087088773922108194390210121135656270084157202110000000000000000000021100000000000000000000211000000000000000000002110000000000000000000021100000000000000000000211000000000000000000002110000000000000000000021100000000000000000000211000000000000000000002057206810152331537157020792087344821436991660211000000000000000000002110000000000000000000021100000000000000000000211000000000000000000002110000000000000000000021100000000000000000000205760673854504060181902110000000000000000000021100000000000000000000211000000000000000000002027408190063216855296021100000000000000000000211000000000000000000002050510350503108818560021100000000000000000000211000000000000000000002110000000000000000000021100000000000000000000200780024296091325089502110000000000000000000021100000000000000000000211000000000000000000002110000000000000000000021100000000000000000000211000000000000000000002",
          "0000000000000000000111000000000000000000003087012948530914510533021100000000000000000000208620846081982172944302110000000000000000000021100000000000000000000202470917496116497670502110000000000000000000021100000000000000000000211000000000000000000002110000000000000000000021100000000000000000000211000000000000000000002007800000000000000005021100000000000000000000211000000000000000000002110000000000000000000021100000000000000000000211000000000000000000002110000000000000000000021100000000000000000000211000000000000000000002110000000000000000000021012083070413079307620209231115523596273023502110000000000000000000021100000000000000000000211000000000000000000002110000000000000000000030962084377598655364610211000000000000000000002110000000000000000000021100000000000000000000211000000000000000000002110000000000000000000020710118355127594337620211000000000000000000002110000000000000000000021100000000000000000000211000000000000000000002110000000000000000000020381079208007439644380211000000000000000000002110000000000000000000020313082931200087918230211000000000000000000002110000000000000000000021100000000000000000000211000000000000000000002020307962000358848924021100000000000000000000211000000000000000000002110000000000000000000020107081390143567071420211000000000000000000002110000000000000000000020394128322099602436840204261128856693355696302050512497335434374032021100000000000000000000211000000000000000000002110000000000000000000021100000000000000000000211000000000000000000002",
          "0000000000000000000211000000000000000000002110000000000000000000020173091027569509850720211000000000000000000002110000000000000000000021100000000000000000000211000000000000000000002110000000000000000000021100000000000000000000211000000000000000000002110000000000000000000021100000000000000000000211000000000000000000002110000000000000000000021100000000000000000000211000000000000000000002095011238950801518031021100000000000000000000211000000000000000000002110000000000000000000021100000000000000000000211000000000000000000002058011197926140482641021100000000000000000000211000000000000000000002074410887004143837577021100000000000000000000211000000000000000000002110000000000000000000021100000000000000000000211000000000000000000002054608931334612143142021100000000000000000000203630794587285828598302110000000000000000000021100000000000000000000211000000000000000000002110000000000000000000020431072744563340513240211000000000000000000002058512962048664765324021100000000000000000000202560916006865436680602110000000000000000000021100000000000000000000211000000000000000000002110000000000000000000021100000000000000000000211000000000000000000002110000000000000000000021100000000000000000000211000000000000000000002061310353569636860464020288067781628133995820211000000000000000000002097911232435440030534021100000000000000000000211000000000000000000002110000000000000000000021100000000000000000000211000000000000000000002110000000000000000000021100000000000000000000211000000000000000000002",
          "0000000000000000000311000000000000000000002110000000000000000000020101074527642281969270211000000000000000000002110000000000000000000021100000000000000000000211000000000000000000002110000000000000000000021100000000000000000000211000000000000000000002110000000000000000000021100000000000000000000211000000000000000000002110000000000000000000021100000000000000000000208980881258755748256302110000000000000000000021100000000000000000000211000000000000000000002110000000000000000000021100000000000000000000209781114086115484107502110000000000000000000021100000000000000000000205830812423633811711002110000000000000000000021100000000000000000000211000000000000000000002110000000000000000000021100000000000000000000211000000000000000000002110000000000000000000021100000000000000000000207791262350370938878702110000000000000000000021100000000000000000000211000000000000000000002110000000000000000000021100000000000000000000211000000000000000000002025908453865932775958021100000000000000000000211000000000000000000002020511022546430601911021100000000000000000000211000000000000000000002051512351880140475566021100000000000000000000203660703072842048164002110000000000000000000021100000000000000000000211000000000000000000002110000000000000000000021100000000000000000000204780693384251804416402110000000000000000000021100000000000000000000211000000000000000000002110000000000000000000021100000000000000000000211000000000000000000002110000000000000000000021100000000000000000000211000000000000000000002",
          "0000000000000000000408351070319792648240902110000000000000000000020991101993068442592140211000000000000000000002110000000000000000000021100000000000000000000201041072421306628389002110000000000000000000020480102711488050841640211000000000000000000002063607058348166736473021100000000000000000000211000000000000000000002007800000000000000038031027132635290463783490211000000000000000000002095711011508800090028020768071844553423139750211000000000000000000002110000000000000000000021100000000000000000000208340927306182761061602110000000000000000000021100000000000000000000211000000000000000000002110000000000000000000021100000000000000000000209090822965894743010102110000000000000000000021100000000000000000000211000000000000000000002110000000000000000000030816113238421425028660211000000000000000000002110000000000000000000020771111180998624512050211000000000000000000002110000000000000000000021100000000000000000000211000000000000000000002110000000000000000000021100000000000000000000211000000000000000000002110000000000000000000021100000000000000000000211000000000000000000002110000000000000000000020927110338285061505380205450801963871795791502110000000000000000000021100000000000000000000211000000000000000000002069911629685623077756021100000000000000000000202061145645131855117302110000000000000000000021100000000000000000000211000000000000000000002097406720342031049244021100000000000000000000211000000000000000000002089706868633964847908020640131439739503327770211000000000000000000002",
          "0000000000000000000501220709857221172429202013809520966034375219021100000000000000000000211000000000000000000002110000000000000000000021100000000000000000000211000000000000000000002110000000000000000000021100000000000000000000410960817121943539990402110000000000000000000021100000000000000000000211000000000000000000002098207152802857618543020613085038052492838150203361012289916158082802110000000000000000000021100000000000000000000211000000000000000000002110000000000000000000021100000000000000000000211000000000000000000002052112399869951547505021100000000000000000000211000000000000000000002047210217277306046175021100000000000000000000206020734918715338760802048309560764109631209021100000000000000000000211000000000000000000002110000000000000000000021100000000000000000000211000000000000000000002110000000000000000000021100000000000000000000201281223135600474460102110000000000000000000021100000000000000000000211000000000000000000002110000000000000000000020087133680220291933700211000000000000000000002110000000000000000000020093082375850344016610411000000000000000000002110000000000000000000021100000000000000000000211000000000000000000002078808993490165380552021100000000000000000000203400830274020662078602110000000000000000000020873101742020029055490211000000000000000000002080312898529855948735021100000000000000000000211000000000000000000002110000000000000000000021100000000000000000000211000000000000000000002110000000000000000000021100000000000000000000211000000000000000000002",
          "0000000000000000000611000000000000000000002110000000000000000000021100000000000000000000211000000000000000000003104306891848933935398021100000000000000000000211000000000000000000002110000000000000000000021100000000000000000000211000000000000000000002110000000000000000000020368083245940664863090211000000000000000000002100307949479454125014020243104512711192319330211000000000000000000002110000000000000000000021100000000000000000000203661005494462505087502110000000000000000000021100000000000000000000211000000000000000000002110000000000000000000021100000000000000000000211000000000000000000002110000000000000000000021100000000000000000000204520849601351449556802110000000000000000000021100000000000000000000211000000000000000000002110000000000000000000021100000000000000000000205590778013224807174402110000000000000000000021100000000000000000000209641296435595238571302110000000000000000000020598118203001060003040211000000000000000000002110000000000000000000020530081099613516140690211000000000000000000002045411531072008383052020247117278882498955350205980908535043604893002110000000000000000000021100000000000000000000211000000000000000000002110000000000000000000021100000000000000000000211000000000000000000002009210725784156758776020979094502043477375140211000000000000000000002110000000000000000000020321079143791203586200211000000000000000000002110000000000000000000021100000000000000000000211000000000000000000002110000000000000000000020465084029645611182420211000000000000000000002",
          "0000000000000000000711000000000000000000002061106765140300009450021100000000000000000000211000000000000000000002110000000000000000000020490096539545360350090211000000000000000000002021206939385816619935020078045176368240812010211000000000000000000002110000000000000000000021100000000000000000000211000000000000000000002110000000000000000000021100000000000000000000211000000000000000000004107910659757836480649020078000000001232973050211000000000000000000003104912972744252041361021100000000000000000000211000000000000000000002110000000000000000000021100000000000000000000211000000000000000000002110000000000000000000021100000000000000000000207100760213633363986202110000000000000000000021100000000000000000000211000000000000000000002110000000000000000000021100000000000000000000211000000000000000000002110000000000000000000021100000000000000000000211000000000000000000002110000000000000000000020260077456490581451910211000000000000000000002110000000000000000000020525087004559111466840211000000000000000000002035207474742904975164021100000000000000000000211000000000000000000002110000000000000000000021100000000000000000000211000000000000000000002047907109626900030420021100000000000000000000211000000000000000000002110000000000000000000021100000000000000000000211000000000000000000002110000000000000000000020185072977576575999870211000000000000000000002100307465398437754012021100000000000000000000211000000000000000000002110000000000000000000021100000000000000000000211000000000000000000002",
          "0000000000000000000811000000000000000000002104208095443256576909021100000000000000000000200780000000000000000802047110253302602911858021100000000000000000000211000000000000000000002110000000000000000000021100000000000000000000211000000000000000000002110000000000000000000021100000000000000000000211000000000000000000002110000000000000000000020171078987377656714100211000000000000000000002110000000000000000000021100000000000000000000211000000000000000000002110000000000000000000020681096403587361807440211000000000000000000002110000000000000000000021100000000000000000000211000000000000000000002110000000000000000000021100000000000000000000211000000000000000000002110000000000000000000021100000000000000000000211000000000000000000002110000000000000000000021100000000000000000000211000000000000000000002110000000000000000000021100000000000000000000211000000000000000000002110000000000000000000020456109321530226561570211000000000000000000002089710067777227550374021100000000000000000000210490719453424357675202110000000000000000000021100000000000000000000211000000000000000000002110000000000000000000021100000000000000000000211000000000000000000002110000000000000000000021100000000000000000000211000000000000000000002110000000000000000000021100000000000000000000211000000000000000000002110000000000000000000021100000000000000000000211000000000000000000002110000000000000000000021100000000000000000000211000000000000000000002110000000000000000000021100000000000000000000211000000000000000000002",
          "0528013673538673803811000000000000000000002110000000000000000000021100000000000000000000211000000000000000000002110000000000000000000021100000000000000000000202030935840322404143202061008132128026494569021100000000000000000000211000000000000000000002110000000000000000000021100000000000000000000211000000000000000000002011707610124543194267020633091265278522292620410390728799842981310202007800000000000000036020638067365456637762360211000000000000000000002110000000000000000000021100000000000000000000205561210477893687081002110000000000000000000020232072566178371641860205981095610110009510802110000000000000000000021100000000000000000000211000000000000000000002110000000000000000000021100000000000000000000211000000000000000000002110000000000000000000021100000000000000000000211000000000000000000002110000000000000000000020141079809963434021770211000000000000000000002110000000000000000000020078000000000001072830211000000000000000000002110000000000000000000021100000000000000000000211000000000000000000002110000000000000000000021100000000000000000000211000000000000000000002110000000000000000000021100000000000000000000211000000000000000000002110000000000000000000021100000000000000000000211000000000000000000002110000000000000000000021100000000000000000000211000000000000000000002110000000000000000000021100000000000000000000211000000000000000000002040407288170866660153021100000000000000000000209581198576826484417602110000000000000000000021100000000000000000000211000000000000000000002",
          "0241314135171454101708521277303456393798002110000000000000000000021005121645358106579490211000000000000000000002110000000000000000000021100000000000000000000211000000000000000000002110000000000000000000021100000000000000000000211000000000000000000002110000000000000000000021100000000000000000000211000000000000000000002110000000000000000000021100000000000000000000211000000000000000000002024213382677722929128021100000000000000000000211000000000000000000002110000000000000000000021100000000000000000000211000000000000000000002110000000000000000000021100000000000000000000211000000000000000000002027310392603362415355021100000000000000000000211000000000000000000002052007467786713988956020317121539176018581310211000000000000000000002110000000000000000000021100000000000000000000211000000000000000000002110000000000000000000021100000000000000000000211000000000000000000002042212846514417234952021100000000000000000000211000000000000000000002015507095402606584371021100000000000000000000211000000000000000000002110000000000000000000020896110164674584795130208561189429001941652902110000000000000000000021100000000000000000000205571155830774173533302110000000000000000000021100000000000000000000211000000000000000000002035709722205653462964021100000000000000000000211000000000000000000002110000000000000000000021100000000000000000000211000000000000000000002110000000000000000000020751097589004212424720211000000000000000000002110000000000000000000021100000000000000000000206181300891300925212902",
          "2587509998098860338311000000000000000000002110000000000000000000021100000000000000000000211000000000000000000002110000000000000000000021100000000000000000000211000000000000000000002110000000000000000000041097103229291506675480208550727528162708902202110000000000000000000020078000000000000000450211000000000000000000002110000000000000000000021100000000000000000000203210801552020749238702110000000000000000000021100000000000000000000205191157920656368887802110000000000000000000021100000000000000000000200780026217660487545602110000000000000000000021100000000000000000000211000000000000000000002110000000000000000000021100000000000000000000211000000000000000000002110000000000000000000021100000000000000000000211000000000000000000002110000000000000000000021100000000000000000000211000000000000000000002110000000000000000000021100000000000000000000211000000000000000000002110000000000000000000021100000000000000000000211000000000000000000002110000000000000000000021100000000000000000000211000000000000000000002051606987419328640617021100000000000000000000206380729604894464455102007800000000000022802021100000000000000000000211000000000000000000002043312337375566333367021100000000000000000000211000000000000000000002110000000000000000000020690119378285366234790211000000000000000000002110000000000000000000021100000000000000000000211000000000000000000002110000000000000000000021100000000000000000000211000000000000000000002110000000000000000000021100000000000000000000310841289316676273776502",
          "0316432720426594206411000000000000000000002110000000000000000000021100000000000000000000211000000000000000000002012307310729204305891021100000000000000000000211000000000000000000002110000000000000000000021100000000000000000000200780000000000008055902110000000000000000000021100000000000000000000211000000000000000000002110000000000000000000021100000000000000000000202751179848635917773802110000000000000000000021100000000000000000000209150773383742270041602110000000000000000000021100000000000000000000211000000000000000000002110000000000000000000021100000000000000000000211000000000000000000002039207029233206806465020078000067420604249550211000000000000000000002068912675205147182263021100000000000000000000211000000000000000000002110000000000000000000040974085606452202690230211000000000000000000002110000000000000000000021100000000000000000000409931160514843351038502110000000000000000000021100000000000000000000211000000000000000000003106707687022505509009021100000000000000000000211000000000000000000002110000000000000000000021100000000000000000000211000000000000000000002110000000000000000000021100000000000000000000211000000000000000000002110000000000000000000021100000000000000000000211000000000000000000002076907510969235986717021100000000000000000000211000000000000000000002110000000000000000000021100000000000000000000211000000000000000000002110000000000000000000030759086217619374746600211000000000000000000002110000000000000000000021100000000000000000000211000000000000000000002">>)
  @@ (<<0, 0 - 8, 87960930, 14903537>> :>
        <<"0000000000000000000009721257477801286869302073011997231326376201020199114646317455423990211000000000000000000002104111357941720011245021074081338684301059930209590750132451456141602101107331246041376079020928080279731183366000210810711316003083817302104210550653538535397021100000000000000000000210561052982264542860202014311264266520375394021011076498054532845800206091275159652571316502105809766354032392491020927073678992618525750207600934809610826110102085708588708806619206020095108493382136725910205120911793842469096602098708962299419431390020977088217231227403290209630768528114570474102083007052041429680813041099090573113211374490210940980785582387778602099310289428309264784020978118029998558931540209941174926130866068702083312493515627324391020535129615197654945750210080679130062116778402091810353349343726167020770077520435127721540208961009962204702186202106706717047907404356021080114737653304786560208100880477134238187702094208633362312991948020780100015126058156350209530868335886225547602079408151173944749386020835120484402108871360210670798268562420960202068208709352848306319020966112518089438432920204020723614802961380402104808811966650503017021032097719100358205130206970734895190890336402106212109552835647720020300091095620447391880207921152671176323370002056513062900850962932020875077721846442684000210351189490330165795802068610645848855673842020267069009489265354120208441341539376114518202064408828394629186052020423120601930514221530209461067887920390067002",
          "0000000000000000000109110810366912299613503108510783597556266878020554079579186419049700210850742502926648743602077110516766750390684020857115374170473192370210461102115296047661202084807804346403834812020931084674125337160530200880681459516634168002102008007164732767053020925088722678645108390207870870832886042825502103306795181661763074020763111602940618077890208770760897910169377302053311215895803066723020843133785352450338650206510840574614263981502072212719596352888801021019070688064186996760207411104943540162811102089607793380025729802021094096180391299322310210881326750276584030302100908283167603831690020927067705055477878400207380751010643009560502058411426108160437253031091088283916205405450209131017554490815398702049210755796519996465020966123708992121752290210281159295474088731902096207206924864879469021075107231920312760650201900726369155206225102092008584784408650691020880115669135660051390203180704952121284667902097411938054050793188021055070809835517473500209521110521091221132102072009703891565869773021050119429850154022540209091331749934606187202091011349835250057509021020070648194220282320205610952781872602587702104312990792663137669020992108127722670351270210320976859844041086202063409053731339956014021037130086582183328170206340671925603018936602039311096919359372843021055128167003504753220210571271444232119001802106212253047139214102020888088248978243554180207350800504201106616302110000000000000000000020976113209336651902060210070885414233405974302",
          "0000000000000000000207220754090866607303302075908424752726693842021042071428055434549980204270906235360829484502095607235619316325047021010114103598292020640206281265454761223238402028309358529630900387020736077075463310615830209811184328951035258202093711353520559184647020565098481220582431180208631259138521330228102098612173750938657489020857089842516273940910209710787077824031880202109010688585906384009020992101475952496532870208351208353834787749802062712883084615999983020800126454884011220850209101214469624034043302106709799236542634237021028087473994501944460207770824822524459306002107711632830905993890020887116636493457746490209961318076830372953702047011651420201414202020463109493117314214960206490756613450171116502106508859815225496946020991079877578070072180210531298914651981414902097607672964125854369020846087475005426416150209131233893546462671702095213103322337080573021058076808945289379070208670951100453234026602106712281039223395156020962090456700455881160210470813733721153133702090310100484406196495020996092919782147255120207950775186174286893602091708078140839515292020668093307498190561340204530750610441141040202018213311402854760871021000081543931025635420208781339905551757666202106910183068108946946021049079856108389548420208310724610923799748802109209385585856887748020952083116494111889900210241203840421794268802084611961993131111207020641069472507251632630206031041836153067363302061810843625236881923020957120373151372849460204841095457955019873502",
          "0000000000000000000304070972872634438830402069407205215359615098021037099759750184319940209470987420631531033702043407375558933524860020864078752547344757500208921036650905588639302058307506641934295995021013071092252108933500204870823202264277025802083509913811118418091020913131181426391882600208621017469665164848602094911623218344263789021014084425078170561610210870885240666540337002074509521986360124221020977132834785186610960209971314638920059674302075311909378946838993021100000000000000000000210920898307063396282602075907943288915951863020773100897150216627310210671093769163174305302094906738477816124408020888068831092385746390210270982694360099835702011507529864618839771021002081895667352640350208230698002316653098902042407471858234225568020983073486671279866280210791337043414040538802065609180271943518523020969120935556024422500207590679645023903462802101511878787836224399021008081554124206998570206711093567754183403902104709220356766561666020981126400466555897510209920940449311365112002104407228748910124083020861079942007265078460210220765452772599735202106309441480131351762020457105176490373629130210540733960034782726202083709492460034939172020892134144955046915840205580926532766081901602099812208059252577312020753072537817118726500210610733323775312092102073610274537504403779020937096898964524785810208410995310224505578702096206994687929853272020641110791438343795950206170803658393758470702101711332993420282133021019114605021032333380209400724369804172157102",
          "0000000000000000000410830935731745417406302091013421178008129269021093078448552345400320203910791839860973170002095909457153935068469020824112107312107653510210371162188250811510302060807248164955351572021061081957713124930940209280899418190619587802107106732092659048703020891095491797546074120208620958445511768513802103307725264313313761031095094835941433596140208191041650641493525802109107228296258314927021079080147182232265250206130757572741301662902096007644947849100650021001091603373255723770210830888063130335025602098508392598760217085020532087320542507246720209030938081263133047202090107038684912279171020904118059656203161840210880709793280698737702080407366749309415998020678074139372278002750209161224490944588314902097411379769902501270031082082459036366460470209470940139900570542102072811608233944231981021079093795861548015390208991328518731562399502098910059646065224609020890120954070345642990206690922979282614472902099609381275761037427021026100610863348019830206330777392776692438702088107400301801167305020813097568683340829840206011262332340241719702067507095926263556408021089078835106237998370210650842728521911571102082906957201442138993021014130100304117851150202060969162054260982302107413302086353892132020924124636351203710220210440756703121499917202073707660303266521146020824092867017422908180208021021104663422480102109207318917535524618020861119713859115464720209040958509804118914902108708346077541682675021071083230798360525660208380811457831421823902",
          "0000000000000000000510381235109830250422202103912579835244863240020913076796801059214990207470712740055941127302027707694847306399993020829120524708322834690208471103453976252143702022712551182638867628020248115556526306178860411010765774291306527302097910462839615674122020691085657025129418650208650893375745331741902109210390935704635691021069100585724357518280210520818832741475761202083608910499736550666020900111148431270592290209891300253062711859702031013348396515850717020934088316279266969770207320997396225564074502106312247052664081115020326087047159583247150209901332967102290534802106011586762062785286020682100013412644263730210681237791074105631402106109291536854850877021100000000000000000000210020948165511724941602110000000000000000000020906100103917113459830208660965336280208180702065106920686356714964020783079990183597404620210390828573053513532702077511625933707169986020563103464820181977480209981250395871765275002087407124462637751568021036112834903610303930206920988372040604571702077811244554056545340021037070983598496693040409081047864823597962102090808052892814703158020693086618102454483480211000000000000000000002108009665885752020622020408072738846453700350210520961772781731404302081807841459251125407021085120965573198469800208410889048351477031802108109467068730873954020934107659210095716560206980685743752272037402101510875609338653325020988133754076425043380209930702795464966495902088309659785336960613020675113894477639329670209741060710381911826502",
          "0000000000000000000609250894027071701697102079811013629632394806020819073536171321039320208230796462052819977603109609103381652488058020971068967620243891550209881312297855869012702078709989148526052732020991082352135456349260205090919488832372204102026509191676538756476021054080888416498475180211000000000000000000002109312989514922231095021046093433977311654740210311222845413475129502024412184035312125696020656115975178614149640210540750556902487071002086311841555655685570020968107111541522351910205071225571740312282502062609885086666249459020903074132498255534540210220931040021053993602092608255094619926446020469128264492046857020210590963157012948307702054508310890622777384020868091534881371239150209491182181296123451502077807626058601875319020854079825623199055840210660771322416252550702087710012446620444913020925132385170139844480210910988935745870354102073707907524761941133021068107223300615404470208130997230671324312002077111991354314810807021064088065553033633860203311293493353128190102105910705741337246693021046111915568323982670210681054742014422327202030607217900328078984020696092728649406334740210280788841485546290102086610476738207031875021100000000000000000000209960956176762364775402103706910475937054109021092092847848030659070205661076092504207475102071109961724756420939021051084203292024263060204270722117631903634302073509377877600897516020876071975033345513460208540913465611322311202092711654327852558647021060084519136324697360209700869576641129978802",
          "0000000000000000000709671022211240384632302106909092829915442141021028090197276301786600206791293091043146465402076012566851342298718021061125907461473478830211000000000000000000002104409510507810494398021036071394844223350520208860676552930625753602076310051457122246401020739110502129198683190207141177187861318562502087112517201555894179020907079205432036666160209330843421262402192404109811214618443529204021034096690436398788820209660820204413395281003109612281672328907010020667081537410469012170205831337537453665290902096112433476301380452020219093688488000012030201601164437603244757502091213015313848577143020884131333812302745170210751043057785258287802096909250587921137551020912097121577064686410209021269762894384988602070609893933466100977021100000000000000000000206351006874555665423802099608101364857187707020647085648665643385680208190942409461326674002110000000000000000000021047095760687391120630205731085956005597250002072809785849203327926021064071226547448617510209100745554620949323802105308034584238168835020974073045189045298300210151192349674415753302042607404232836910035020926131412496067129200209090687030572253874302106107669899845103651020813072449689275419300209550774790343008648502030310983275507766847020832130611861184272440207811013935930277338102056511776623421146239021042118479266134180730208261293502641260005302109312938608637264652020951083866491611353140209580901617852164701502097308633234908301118020989121352954092859400205661263485470777464102",
          "0000000000000000000807850674752905834142902109608805569139078568020777116590297509797100210330700060050513422502106011097962454345034020835092288484605430190208670830427133597919602082112776421864121625020470073350375231033970208921000993413120025402069909201601849069795020717083513615129543210206240730070026233324802063711045844510921870021041129843173292755770208570985147055883707802071513147782147203405020951113366509552442960209580699919035363867502097707981723145776201021073120558778609289340205651187477412777361502082012502155458705049020745127008291323360010211000000000000000000002061907884117615426716020838068518770149504940208370699035683233139602096311763886658762569020876089480212497209670209590938093073286842702067707962975322136751020533103585099352938610207861339975854948578902044006717106712903525020816105825200316127240208810827552321637822602100706895903131297230021059116358401527783030202660686576326366805802108708547938057378157021007093276179121933360210961183738254521135002049910704042361401383020823104710818050206890209051300868610878949802101712461498604408066020770127315966594988580208741287011780131985902073708957424166205663020874093350891571287180209100799753165925233602093907392071024849781021001075990640144457630207000671578902520084102097006845309927748334020421130105505261029370209610770812492755474902088010188640259604135020535091284421656235800207161185921674717564602032907988057423057688020821102140628538549270208440923738220577963902",
          "0528013673538673803807781018515480413388702082312703779058994599021009115690126412790780209850692862343206008402086409567565422481445020687110822821385334180210431312265993077042602106908808057764266286020922117822169039648940209891075191850911728902093008032522543194028020990130017319216569010209061139601761169401702103809989011233002062021070120146774103265030410960768178742284374302103307694813643789612021071073200192263383470204360889776551072175402072211714594401349132020613083164140379676520210660696291264744412502100809155620406731850021045113416053451130110210681067157184651114502073809584515309801432021100000000000000000000208201306272583540462002080109576259107550174020812090504204212837500210220979362650400230802098111691700540225579020949114463145043931310209751105787515579513102072610334189900120852021040070843349553573110207450881330833021671502094607086088105255704021033126928552080397280204011109662635436721802063811967955832145651020501092208976414287740207300797574924751724302087710897451348298271020850068593234665134340211000000000000000000002083311447222109151284021017122667632314457700208270815587031150901502078408604626531402927020717107926389465676020210110924990391930102202092506863616908238919020355133668480410754730205381002896026555500002098107353017263404879020799110576828081058940208690900135664828952502105609539701829537196020992107714506458663050210910758842262745412102039808480020627515045020991108465956240510050209580913788904279874302",
          "0241314135171454101710840988017236669671502092513069699126167391021094072734254172146260209651062385131827366102092609328621646213959020782110995700435889180208010745675452462834102070607476423914499275020901115114943405172180208720907098670679515502050108529537365456350020828080368111657669650208691155223286601689602088810257208934142747020628115019091548260760209080884033725015696302104609086598331255264020551098268779649325490204121006471852320816002079712309421625437284020716110597161260829340208930673864004204030202077609054871932013985021007117168897456596790211000000000000000000002104808564919560872724020866093840362600039720208330846924943381284602106311361956826324434021051072730284404278200208811084440734401358902097108187494208410446020913070365180431931280202861183018791125654502093912370120520734970020644115256117457150550206521031566656608791002105710778267856699809020514074258853084637420209630681376316262287902104012897568115970152020814074477300078966480209601249735861933588702093707125820425039330021087082317332578247430210841169734496150136902092208419051764738052020935081763151064415160210660725022373732200802100810774296900966243020979127902696119078170209371211982075369649402105310143102546032181020943129032568309078600208280727626523688113702092809291642027064390020874097248932416647000209650901260795369912202088907413750236801166021078078232430451196400208160954069623860784102110000000000000000000020518106059916070120170210691282766036203392802",
          "2587509998098860338308991166102186131632302071409694057335921116020658072923628444209260207880927625491836455802100707341618460264435020949094042499228828030209040897024656537330002101306854240425192890040982132065235167453730410841086250223460496902098213206523516745373021033078078167646757350209670980130342090742902100708732767740364764020671070739906004155640210510842701464821695402080708744758530989007020790073503647389080090210631118263604927899202097907253031812831500020912069546210492203330210351195162643145334602072907273793218939813021014100669892372976250206921042866881906771802048508705871408738497020538128798562504309880204900672465712350947702102510195524241442441020621116826709638640930209860971103346596612802088912305730805219660020328083128327214845410210320737474532431720602040307032397063883321021100000000000000000000203101177402401240322802102010132256155056854020939127786800395909720204591058953660291317902100010771720566211880020566079810224465272380209760790463134261134302106309514608920627793020844080345727533860060210710735661243042028802103311521919558932667020666076807005046209560206881099934882092927002105808657239664030450020886073985811507614500209580784201904003258202045312106210619946011021074090219460409061640209111011896154755477402094809254395818405807020317095028601186701620208851317391710642730202110000000000000000000021023067420708000533330209110999378211775639202103107184051003258179020754128484886616015370310990757539400778803002",
          "0316432720426594206410190677918095219422202110000000000000000000020965119885194223209650206061094475954302609802103812921689722349433021003069306604156632910208700762511910997456802054010413086412515018020797099305723394512600210331246761184235684702056511178444117162571020903093604719025889550207181129529374991845502082613374620610554485020975083039585132503390210480941447074000667002087108983181902013737020778122874729203417620210880916920023033104802091109691211861650922020856081563395429529570210050758211054692746202019108403591628418077021032088996472321058370209360849208191677691802105511319060652790771021035095074609098237280207670836223340298674502107408671868922458842020931129090407580593390207220707275616338776602088508718602207926461041092074304745215819280209700986077913480435302060708102367643556854020954102905368425096960410930862419734254827102077513231890606366286020953083504586112858730207120685745085801138303109712962287500649662020956069084597138837170204040934345091510836102082708320147122039830020541073733787393910490208360955093014432155602092609083563620535936020733091453126294471790209910929219601965972402087607087968721232000020759124929435309122410209281318706075337842202107908392841408598446020588091599229010841330209360945771934231641602110000000000000000000020951084265794290308760209330739952141263017102093506732164110251540031078109783991567642520208851030436103072138502098713341704119851806020956110743212064376180209470926853505853040402">>)
  @@ (<<0, 0 - 3, 107374182, 26843546>> :>
        <<"0000000000000000000010961125813423703605002109009821608835778378021076130021858229927040210700888655414937133102109809577323213411915021099112854102592699430210960882144972689957702109711091393621233983021095101959321038591320211000759308481082749402109711103477503470390061057090914585199575510210971110347750347039004107509622628919011107021097111034775034703900210870919348314314554502109906920756409035187021095099946284341469800210910830940091672051002109311590053705180110021074082035306219189640210841304137213886880902109707282268300278891021096121915022138171670210960947621254194726702109307142032466566793041097081290568352987870410961250260261311388904109708129056835298787021096125026026131138890210970830274274964326702109307643621829140564021085098957882011352480210971049582203545650002109508593922129732173021091098753372107275230210941162533450113638302109908780772856831314021100074773258482804320210921007377813680040602109513095569227485065021091118699322351764590210960796028524546160202109207568903150426604021093079124072112036480210990884925656243276602108908312777101739480021096100923499128030080210820736398420129423802109810937885316124018021098081093262104134310210891080073684273984802109907767731147943469021079096986895014904910210920737008735225203102108608427486302652244021094079553524282593490210980859586604562733002108908970234227908600021078107237292396761580210930930809395904876802108808473934139030197021082108299350380540960210960706779436308063402",
          "0000000000000000000110950754263374444255703110009820492015366086021086068456999467222210211000949748545019899302109110130932742676531021093116779570533376130210981056226101614250402109309855153625338667021097130413915372107820410740715955402560945902109713041391537210782021095096921383638805330210911339224743569907902109408238273617315374041091088035695511940470210940823827361731537402108509515451765257980021093091437386233170170210880958261941779084802109008534571735563128021097127712018532739270210901191345454375138702109411548442818783073021101110000497602084090211001238353816077245102109710738179515983351021095099730169129927510210901118473354100379902108611766048321313440031084091840158575077850410950786080423506272302108409184015857507785021096101168772259589530210980758680975502126102109609294241125796276021099119240727249620590210761095431102960762702109508861792009157445021094087823699456477680210791326103520769900502109611649343433297186021098127072754480413300210960786968486624498102109008180131713645684021098115289149225962560210950737281360257129302109507474155559372553021097129996561386640840210860778689291231600302109809991951626758723021097079962316175900690210811269227063470953406108807100707438772613021081126922706347095340410880704670765783606602108112692270634709534021098129715380543330470210990681273266448596702109907771441566994966021094100520460668044410210901062223993723370002106408272768749397901021096120538025141364840210971038147460224685102",
          "0000000000000000000210900842110850073826702109108141550025086924021098096378558578552550210821154181273918051702109608356413207023325021097110204178458970970210871287704266611735702107907178018616677720021090108019315268598050210961318734651150439102109512068066000612716021086083667595385642310210931301898071616839002109707210497546366604021093116034205097310180210961092825696538218902110107139848400206098021087126563583300376710410930791299643277062802108712656358330037671021092085143886612331950210950748711835498798002109908931877607689007021098075323055088573620210911119918151744064102109913029715002866820021094099460101295278160210970862804755215172302108312456951605075772021083109843966122391400210880922362264685287002109908362843030108312021097077949312004438610210981237454823536806202109611934376732542331021093095393564454942210210950789969300294706702109607903088048036374021099068599413209225780210940693830156030998202109909024500149310087021096093484674180420960210981068557673251569702109413162881819321892021095083893081633481300410920769450833519536102109508389308163348130021088129913177431802250210830910992574430894602107609653140447029988021097091495376015737750210940850812226603131602109909547486237783827021098111394617650160630210930727495001943214102109807073802304541405041096078115254086805160210980707380230454140502109309616092201746632021088079854946105320790210870822233352946122502108710740769829283585021096086175786264463210210840797233026554102702",
          "0000000000000000000310820810840681430741102108910235632232190860021098088666067031299810210960717991451607476902108212999563812900773021093130938042342591050210941083602422992282802108611435455613759254021093078730056153656870410840834694792525641702109307873005615365687021095079120866646065750210931272041510358178202109607470421532718682021097117401687513284960211001100808782523018602109012741163923769011021096123199185409940520210970878192780463658402110108487210625924292041053069381346427062850211010848721062592429202109108129294214851058021091104857930521468600210990897675311726380402109607366885746336597021094099883003004724420210970948112201146408104107411589577122919285021097094811220114640810210921261226586182636802108210889534713117902021097067489188286926610211000720077292425779502108810495328321050509021096106638368643634990210910809690893584137102109712055277306999464021097105451188378162430210890687870840572858302109810725657052071192021096132093452493549960210970796771813644745302109810022336750286962021093124197658227108270210980674847942799142202109907909936353913809021083098648574328030300210981242570486476428402109308148364221217847021094109077626200132130210860737792950769996402109907407494843087099041091072913018176355100210990740749484308709902109010881718344950179021095120192150104589990210930875835903505693902109609287131720754053021088080814774632283780210871047124702284518802109712475759557014618021097129301666564425240210951258231120918729102",
          "0000000000000000000411000861609143141239802109507506298660731059021096088739279606210580410811214435691970608702109608873927960621058021092129947335338245540210980890161565767053202108708902113003331676021099074397323123955010210951022563864177958602109910014291866340312021094106230821132140750210931270096911853747802109808204993566888547031101074334564262316060410921186912203989795302110107433456426231606021100069560460197587630210870973904485016519202109608983740257826452021097093411172090286000211000857990045455390602109413137997559802676041085092883779029519920210941313799755980267602109412587018442738003021095067260794335884010210890771134753452442704109209015122948107508021089077113475345244270210950832998600264384302109611635069118347567031100080803825115198000210960717090130529054802109009471165741618675021100070295578016640000210941234731600190062002109707567694454403411021094104995847421540990210881322021821469115002109708553265504499230021094088379698092965280410880694865680845626002109408837969809296528021092106525369569259250210870797474372387234402108907303377559452196021100126311573572675820210990834484701696798502109307013986363424155021099116012548595148100410770732930974951408802109911601254859514810021095096048825097877320210981003537842947447802109010993587339104719021092129322474037198000210920877382271627611302110108224510940401254021093125488192313842140210941338058375789759702110010942723744000430021099101217602258885350210930826100932916591202",
          "0000000000000000000510980907818056674413502109809250660654542930021095078043778540925470210901310392660225853902107812841630626842835021093071133494052790100210930976804661862159602107710709553923662955021078077563308113531450410890974806775500717604109612687230153617667021089097480677550071760210931337132091502910002109811909831631556765041099095418386043463650210981190983163155676502109307992095431750049021094125111100247723790210951136909443400454704107911695655924919111021095113690944340045470210901012842482113182002109707758883255453268041080076832189065269380210970775888325545326802109907339998243583911021089083422651165492850210990932367542631663302109506939696466829424061071078438344484485440210950693969646682942404105109388220038759039021095069396964668294240210940681886325565907102108809535048503934994021091124475363048823960210980914872893998462002109110904096126903668021086080852489549934500210970892769203194564002109407798042647944008021098087379452612879640210890995900932115882102109111490473963003121021098087894718614190580410950719882273392889402109507150460852952246021089101031156510860950210690935354425042412102110007387392311258166021082081923572638582390210981197268955082232702109211575908951250734021100099242599452855420210930873308120096820802110007752343104529038021095114268819439734220210891097463603319353902109712028078409752728021097074890126486878260210890739238180921891304109409219930144297069021089073923818092189130210961161414460970255902",
          "0000000000000000000610950969403304874745102109208188504729632549021092117637919610608480210921265494342760183203109707485360732729739041096108913613023525810210970748536073272973902109206719687335242786021078104260533617595720410841236794711370155502107810426053361759572021101101810495161259150410651284565155478433802110110181049516125915021098105107860250831550210881055831640642254604107807234684007251238021088105583164064225460210981243509821931376002109312998533738818771021096104437760574898190210841202484716353296302108712349727825285112021094130590637565368130210980678239700803862502109509847463322573600021083122679962511978000210990709813950695878102108511683502511090439021094070555936636791290210960747366222011553402109111376815248419847021093109686362356621260210990856708810824254102109408296369501849254021095097919459241793160211010776505800923545002109011002530303921774021099092609238321417740210921065849463101890302109110165020844575454021099081177102397939180210800848161375211892902109907126495451593136021098105670664452860250210990925378535920927702107910724163949776103021089106741259510182450210980751240101260674602109708557439253492667041062078105862470244680210970855743925349266702109808783438002439388021090069774146487523970410860853589683804423702109006977414648752397021090106653687413899900410821147490285066296302109010665368741389990021094080818678358494710210931100655761351040402109510112644221628986021099072513911537835070210961076348126644010702",
          "0000000000000000000710961024782300923840802109909495726927281397021098075382194428507350210890796198026163913002109108372581759734534021098101010254415857960410620746512714321928802109810101025441585796021091087800172119648800410940963578924442938002109108780017211964880021090114980914501307750210900739043370250482702109407501225725131165021095070217186457438580210951115597681630542704109610010998864860095051098084000109173562110210961001099886486009503108611605811025005659041088127188460455689750210861160581102500565902107513021798552606298041077092229377665803990210751302179855260629802109507771362639826641021094094590881206284980210991190491785969727802109610590928733388549021095077133390115608440210941300734781246037702108912767820608964848021067131546732152811190210880724751912883594502109708521207434037432021088089303249594403110210921183873895408928102105910715736736704083021098107378528110188990210860966707695598859502109009429849145537379021099080458875513163300210950739417754730788302109812177282964741906021096115037622104259920210950996536902932872904108211280308459024464021095099653690293287290210950724894192234542102109907420476858168154021092105716709573814130210960822382906428647302107910278074440383766021093075177322180566630210911208667362815832102108608405152017150828021098097738920607892280210930675679483921461302109608707202411189910041096076759008105758170210960870720241118991002109611349889305148419021097076041235092831530210860857104955176837602",
          "0000000000000000000810911284116726526843402109808184329919623749041091112988440036872480210980818432991962374902109907327776300244049021093078585890198005600210940691424392133124602109212362369556730235021083123102473141725150210941082631884942609802108911255522338926413021090077263141491216320210871182701864609997602108807527171817848197021098096125625596955080210931163082501352546102109007544062259139598021096077353558604708610210960865093974771682002109612160312307324465021099111007404020168900210860840693810344057402109212138194459941227021090128354700655772530210700959191033875516502108710844216748593438021093082253167125682660210930808478954246507302109609580055043179268021094081270344297562690210960887208975796499202108907589587736967165021085094960998644076360210911330265866234762102108307212690649346425021092112583640346414070210940886329676374078702109710315256424721732021100109691543275606200410781053374112116179602110010969154327560620021097103953287056267250210921274389443646156904108410397371823859174021092127438944364615690210950686352053044326102109712506113711130958021091100015631313569860210940791699672287814602109011037700936640498021094078521789037185160210950740747293522699502109512367430625224789021097092965400648613680210891136503564844708902109609146502448754026041082104726458228354000210960914650244875402602109408753891018761102021085098073698501898340210900765887254114767702108008085503820367941021092122917333028131870210930921960180532200302",
          "0528013673538673803810911146140326179440702109212807107804170174021097108304179317134330210970698220446126780902109313159215119196952021089091402241000475900210980999481331060167902109909481275954115071021095092566581667836310210970758059882054201202109510564427537901779021098090278421225979350410950696276613756319202109809027842122597935021099099574555668839390410991005645330498341604109808204164040624718021099100564533049834160210830676702156604004302109008516607524844227021087097623296254954560210990852871345665830302109710576395201550211021098103578619251836300210990925886331253997702109011254787456565365021070105604903579629630210921215183163179626702109208605357216211084021092104450628010653860210980679118830350593402109613182998239612351021096074674890380889140210961183467436383971502109009113772110517776021098092800698053087640210901271596241216500302109606993974706154391021088076776731007456890410820731408455544863502108807677673100745689021084107319361514113220210900971949072292893602109408314378164137838021093076265265541317670410650880190863333715402109307626526554131767021097125010721376194610210930679703484847702002109112694078213258648021090077772031543050470210971115759721720572002108510368541121223928041080129956049325840710210851036854112122392802109613027408904083645021092083359548446114350210940717882881529100402109813154374109309659021097079954478534924560211010748301104242176802108206887330844267245021097078562215244367240210960871019181040750602",
          "0241314135171454101711000916744402264529302109509788729306411458021101104039287667121010210960990027954629047402109509878331921939773021091123315915441958070210920855042226640703102108912676573826859110021094127465325046133640210940757283286144909802108410710545219207787021093069161176116956030210940722482881398586102109410090824440303899021087128455981468601120210950716755883897798002108208868391517409851041085130519116166180950210820886839151740985102109208067424324349885021090076452000494175080210941090906656409868802109111028520963937096021098109284113535468130410690991115380398575602109810928411353546813021094068139255524063420210930756792631699516402109907970613500528544021096109392995019556340410940892485145154740102109610939299501955634021095077869227188270220210790761604242742293702109512531522625346668021088085319658640755210210880980543772982684802109906771978536002375021085067208442121206000210960944705864152627002109809430813940862403021092107685414270771620210960909748495180493002109511925014245860685021100109275235623264530211000930147170284226602109509177355446254064021095115498162144126850210990854383782677088102109710620564949717585021096127526344253537650210951208826123124010102109812272267456944421021096067339277020357360210930689853834666489102109510234159717702258021094078604064561840540210960985868093432094202109410186468413370511021099132766211235940400210850728135585959995204106410454272710189518021085072813558595999520210990965463914047010602",
          "2587509998098860338310941230616706317215502109007353783104680349021088108105823591786870210920682703682881703102109710331808917869593021096074300177434233480210941335789364603210502109711472309655045295041097067304652105213470411000924222920202654002109706730465210521347021098082072265501855660210961023680053342304902109710377806848938570021089068024265292388120210920703165813901198004109209549865150113546021092070316581390119800210990796536691338619002109612568779030352333021095076476734644559650210980859691300565885702109009526050328764851021084080674669296958780410890997270182853253702108408067466929695878021085104351627122447500210840875786395945696602109707168897405412276041087113496671453377020210970716889740541227602109410319470650673451021080079514036308758160210641066091400106572104108207490342416669374021064106609140010657210210791165814025152239202109713120215112282974021095125419513342663940210831022302165139848702109709214971943618003021086084708405369261810210961194346813956814002109907912447962601178021093091867343536947450210991005897466191527502109808289392428598249021088124760431222833780210890930207202927825002109906890114766885074021094096578791530187490210960867615731884118402108309222087414460665021099113506099543357270210950758564035201068302109806847012060551816061079131277786264488740210980684701206055181604106812572817626976745021098068470120605518160210950758322344588105502109807904201159169064021091075312593626152440310831139717483249692504",
          "0316432720426594206410960993095553166582804106408115357101190729021096099309555316658280210870868284816114429102109809088956307262686021097096097138096553420210940727637703406367102108510753461221948971021092080231952023304370210941313726752388866504108608393942744334221021094131372675238886650210900792566882472085302109306762578122378694021096117482186033499480210981095997754825312902109407437789132489321021091115165942090163770211001188443343175870002109507577257526761939021093113711609305956330210980808993885399134104107611192113564777899021098080899388539913410210951176800186205005702109812915374659900453021099113256265344574050410910938156355966533302109911325626534457405021095108849643662079680210900840730273816452402109409527975650058324041101082433411549554080210960813809970693114106108708770520357398096021096081380997069311410410820768010540276358408109110940275018915097021082076801054027635840610900703476025738451903108207680105402763584041093068005057304791360410820768010540276358402109306800505730479136021085108496785235520720210930800630881973012502109509871602230690848021090102868864432211910210970782517463351005802109408078695629876243021091082240823449532430210951032630174841875202110006977445337195774021086125602514137114730210960767683422452900204105507535300242978685021096076768342245290020210951111866064287500602109511492495926282960031100067849157513958130210940956882336564532402109707356820257365888021096084479599422249190210960716828891932015002">>)
  @@ (<<0, 0 - 1, 67108864, 0>> :>
        <<"0000000000000000000010981169481532335517002108807508640111531192041090115368296014609110210880750864011153119202109913220477248822615021100126499141389493810210981031653100458632102109908744418101745114021098079921351046538070211010775922970450802302109913406701103932741021082131930544103595530211000852818892814304302109007751494216985964021099087507844138132870210941325207735020160602110008843795759170622021098079230043547429400210960964512401209399502109313268298839480490041089110226559234815900210931326829883948049002109906741251161688067021098122066310530100570210981069424571130163002109707903194313731764041099071893259362293760410981237575681081798304109907189325936229376021098123757568108179830210990728077572677643602109708120702634860080021094078387730111846740210990843120443477218402109807427522747077469021096103347673325311180210971267208602543049502110010565455716160104021098089429896111274490410970687288195279515202109808942989611127449021096111239550581166500210980980908104770249802109612260413232497737021097082337444327141610211001062568393583839302109511081138516201811021100073599471289659920410921212654456247155902110007359947128965992021099115309513524721800210951230459385068356802110009649502302857578021091117861279449931490210961213056371611528202109409699718964192072021097108880397661377050210991208866734840011202109511423717166762965021091092984865425005430210970878654695351106402109508462680902975606021093070747691420060500210980926750591382187302",
          "0000000000000000000110980703587436392868403109709621010326653021061094089257984211872350210970962101032665302104109610440942464071347021097096210103266530210211000715685726240532602109708989577708642214021099097806835497404660410891043855341684522902109909780683549740466021098078182087215701790210961167404373724380502109911609066165875957021096098705976584341050210970872415660436348404109407716843560553966021097087241566043634840210950888930131330851402109607388233718757544021099096358016227098460210960844273224772687702109712638493241225417021102075989111466383870211011067946784524934602109908558539625735764021098079155541548189830210960823224313532047802109411084910245070582031093115318498553160140410980715646783765736702109311531849855316014021098110581334383556880210991094443215318921802109810589900721127053021098075244023277540540410901077243685248737202109807524402327754054021098119101959524249740410911335724525411444902109811910195952424974021100082810092334075030210980975489032804957102109607263936701912331021100076739192207664910210980697070844225408302109807009665920239482021099097582716136031920210940939778730315737702110006842926117774755021099071193040177177660210991153087154223155602109507884870745641396021099124751541515910650211000841393425977672104109211426037902494050021100084139342597767210211000873812155744571402110009652947558682693021085110597748029040180410981213155302445771904108511059774802904018021098121315530244577190210990837117374507548202",
          "0000000000000000000210960734878661587897602109609566713516024468021099132889031659216870210930725724093982856202109810044150620431147021099087070351056053160210950758208042550462702109110449313549067686021096081183636281370700210981274580060042528602109808614628818070605021094096717006314358050210971004858070638673002109813406113026651781021097095964000306723660210981151213631282309502110111679744448402834021099071124535668293230210970823398970539465402109507529834619639532021096128514851153620990210980701463422530998202110010698076423385827021099108839274343717260210961086812045487391002110106990416536065898021097119054410324701720210990745177153049164502109309872761416629381021093093882449551016110210950875456441219685502110010193402837272639021099070130204634002550211000811201413377973202109812066324401767265021097088732263666726760210980717107860344783902109809774888945966940021100087843889271263710210971030830353972093202110010778886817607885021098106210434023368180211000722384420775041602109713317610915039482021099074113908371146840210961234139573454304702109807352770430277024021095100400346661862240210930871123773224231302109010241118237143408021099077253580158743470210971118457325427151502110011228547723828648021100074677813138372110210970796170233291730202109910379515948620477041098097200157423608920210991037951594862047702109708901708710030365021095082640828015826870210941267330725315907802109507051412109604107021098101975704500842050210931089732850387031402",
          "0000000000000000000310921260277375927037202109512042919928609960021099124041059247229140210980933654881277542602109307610854937126969021097100716417283055790210990895103483197957704109410959262237313336021099089510348319795770210931109933632231660302109708217319151360170021098071757292343538340210970995576060291425102109809514036819810192021099090870311508811520211010990661683946978702109608672645055837920021098122765244417304220210990753255530072484102109610585721008264658061081078121580384907190210961058572100826465804109609560950434225792021096105857210082646580211001073727425827999002109809451006903940925021097119256639124974030210991076173871558344302108912656480823939237021099078991384641791680210981291269640002230304109307090317146446343021098129126964000223030210981136494632985391204109509218756458332800021098113649463298539120210960954569672586600402109909254124237546011021099084570934059486430210951027279660781778202110007245549924884513021098127576427317530530210990710426180498607402110006859827554808140021097098609622076748680210991002613993681839402110009781047759662871021093089931172527380720211000813811752519477502109708331095332842705021099076061613653100090410940919715975157385402109907606161365310009021096091538114135652590211000931160116039497702109608142296715872163021098085988049186449580210970857517573149607102109810585814619201053021095083036730046885850210950698009435917032102109909477923501759640021099097209823376790190210980878000385081756102",
          "0000000000000000000411010844315101735525802109807021979444536016021098103470434292819500410921122612152628258202109810347043429281950021097076097236256086140210991244489696522491602109413082452603952041021100093421197556220510210980800229681937322802110011620855743040357021099116396863048388120510970994966994979314402109911639686304838812031101119761998650933350410970733887296025425402110111976199865093335021101073115736259498340210950678060552539592602109810410751355767370021099078257710351325230211010841962483713881802109813199262444830755021094076426484318799370210971330753450265995202109713081425639134688021098067169608482189240210951075320783776994604109613148632609894263021095107532078377699460210980733097206289145102109811902360004811205031101080900346159919480210990689277156470704006109607702457428012095021099068927715647070400410971298120340307386902109906892771564707040021097121661951508180180210951011042425535413802109907412490950495183021099106227130568005510210950781689494611023402109711356040545558722021097070281844636346130210941251925894917015702109510521930543953182021101108141216538414390211001017720404923796202109707846209457204214021099091562728603434050210901210367235641560302110012897446622814750021098077877677269084920211000686707570013417202109608175676613312557021097075950656670515070210961300671040748808702109713405282000960048041097099018211228902040210971340528200096004802110109868766512785709021096101435199094285110410970837697415368249402",
          "0000000000000000000510991264969183309800202109912848271859612826021098071352191267017730210970789048296366262304109109993600860007302021097078904829636626230210910816838991801610306109107043207530870754021091081683899180161030410951181009374778157604109812475818614065651021095118100937477815760210971015649024122505502110007872827043835492041100112237503479395960211000787282704383549202109708266814547252435021097130498123435827900210990691919276032671402109112702691841842619021098083862119170744630210960791197114688168302109906993964950875711041092070841086538316640210990699396495087571102110009247520859422486021095110968451199058570211001103746954650254002110009376782032623010021088094252157102800830210980680179811735814904108010127756115229831021098068017981173581490210971023695331384535602109508871623317977043021096113373953332541760210991273109024466760802109610752657148953409021094095401958272980850210990760903151513014402109710801403046785103021099122538416301571950210951191166263734531102109610980322809757712021099123140154615226460410980690333441427518702109806884494735292791021100079053999468518860610871161652982559067302110007905399946851886041092126548057283227130211000790539994685188602109707265808937248097021101092644093061909870210970856526746638440702110107868399341607306021098084052649117199730210951238345925406240102109909239681463387902021099068510595514585520210990714771643580388202109711549866952287268021095105730353580202020210981189087033075840702",
          "0000000000000000000610970731275235400550904109612652424952777580021097073127523540055090210970752949790144073903109906849122538554729041098114916400077485600210990684912253855472902109611690458800676591021099070162393101394910210931298987514773886902109109194368550322494021100081589687063109810210860870102441522229002110207255277614278118021100071288032137486470210991142141522432466502109107944046132224830021095092408474293280710211000814290581066057002109710042265007677823021098112418997659958480210931284451634104717802109507456326003018345021097132754957126045870210991006282232497301002109807872160255187235021093098125839393156030211000901583442721747702109408377166631331610021097103776580144099670210980951600572285127402110010376207937794301041097093828545507727370211001037620793779430102109711072384628788033021098078529109234371160211011230420250315976502109608178336224296012021100109835360481434580210970702975646489256402109610454980813239672021100099714427514325220210920736986153365306202110009043167945706267021100071594734657219570210951224669376548951904109112269625517261161021095122466937654895190210991086186170683981502109907414683719243449041084124155333626475610210990741468371924344902109912306961409751115021096068162536627699550410940974943825093964602109606816253662769955021100077406615016348280210930724038300611181402109608077152501950223021097109569739105340660210970939581670599225302109807963590402866560021100091630194387586190210981142049605636018802",
          "0000000000000000000710981113189014657050002110011184534341476419021099108904866193455910210951089166733819087802109609674392205906412021100069035038426989550410841219289440828480802110006903503842698955021099121353997631313250210971175549296567385402109609860026365506067021096083237348165851900210960697486653222350702109710635032538830302021098109983492022856960710980831566970491237604109810998349202285696051099118627261054498850210981099834920228569603109411024277266270024041095099552693516762550210941102427726627002402109008748554902796531041090132690442003677850210900874855490279653102109807122759310768389021097116687850098327840211001313259050382204202109811324236627792341021098071008123133311150210971325444143620833202109507949680565859471041087076470505080604960210950794968056585947102109907395647119776660021095086421308251763250211000725214815099253204108312265767932885000021100072521481509925320210941024702983571891002109607688999445307863021100099058662323078130210980697893826391166902110008010939705019919021098118301989593197980210990925474000387256602109307191017126665871021098079129163461783480210980692280644295680702110009323897749856334021091120628696093123930410980996580093723019402109112062869609312393021094096894284296117230411000672103405784988704109409689428429611723021100067210340578498870210970772983501560524002109810249950845539124041098096384172288884500210981024995084553912402109811745450106415358021099069120702385416280210940976547861281455802",
          "0000000000000000000810961147946721365087402109911616162917018458041096109067042149163980210991161616291701845802110009235890928047290021097082112970232872730210930982608783637114104109712316243158066001041093098260878363711410210971231624315806600102109512509276460507382021096070999759362783900210950732844860000297802109508070987261668189021099132603322006841540210980967423594632956604109607032504814204318021098096742359463295660210981021708393170374302109812189637511061888021097074049745305037650410940969025195772679802109707404974530503765021095070784995400839140410880774158660700884902109507078499540083914021098107535862259628800410970830503406217226002109810753586225962880021097109814267487632780210981034597536415304502109510684967450348343021094077105621348939890210961164274294922070602109307934377405799582021097071854181530533780210971136904660119724102109908336422355327273021100090648121447186350210910923223791395281802109707550623217132695061099083784455046532640210970755062321713269504109312118681151600764021097075506232171326950210980677166584092537902109909494119054241246021096103874054245668100210971083133536564055004109608188783341041545021097108313353656405500210980698405525843484702109808711162819429313021099078024092092084650210951255781991511044602109810504838265139439041093069804673316585790210981050483826513943902109607075120945214265041094078106819388632780210960707512094521426502109207230207566213145021097074423002062567010210970875303764329977202",
          "0528013673538673803810961096920233888912602109707565582259669760021099086070429561957140210981316256110867527702109710091737036928143021095115098235608719730211000684451874704585102110011172227235236183021098076652945296671590210990689960875377293202109808117483049271964021099069913497388827100210980681089766584267902109912591462406331407021100115735273348011070411001165588755779887104109911638741545388446021100116558875577988710210930773451266281885102109607382009246246308021095067870855024443510211001034200635460005202109908473521602612381021100070451350141878300211001098176236092317202109707408301163636894041088080452874454766130210970740830116363689402109612906232648288024021097069731074126229600210991007233610854457902109812743459546395375021098095122549428422700210981201178486280971902109607584853517752445021099128819879065652800210960866577933219695202109809221876130471290021099117594977046407390210921209360891044273702109508135153962104737021093122731816370085980210960778261122015537902109711081992162757587021097081134328419415780410860747994964093294102109708113432841941578021099094914287316726740210970774821620361606002109611426688747631426021096071186445581501300210990877930341561146202109407986472356608768041092087415114595372220210940798647235660876802109812659621850213573021096127430700381708710210971044978532111880102110008505246455316716021099071188906099867660210990704540313499460104109211806259024064262021099070454031349946010210981025169571239078402",
          "0241314135171454101711010879599133251241202109807851794452991174021102073501227273042110210981093568693181435902109807882846841736011021096112950350424321630210961287321295998753902109513118575704993694021097131474870577469030210971067552590985096802109312263390607604413021097078022323361916270210971047651775480567102109711974477964043188021095075746691095903030210980689116104465692802110007124087855659765021094087566417315844150210921306260732667856702109712353811401194888041096070700661035867320210971235381140119488802109610801568902065260021099084103979042276650210871188873414058769902110007354859449414483021097102339875304908850210970808843852481448902110009836868708746411021100077120881501477240210971140056375706865702109811518268052773656021098087637659340203700410911069984954720561902109808763765934020370021095084858153132718520210950897141042891553302110008698072259790562021094067148677372726280210981067755942728967502109913054162120900565021097070586993579777020210981047654502161238302109808568233505931959021101098599490467087690211010888024104042915102109807637175032390362021098084456934170511020211001035549394272935402109908496726230383959021098125112128259100330210980862116455507903902110008059690809822221021098090600004328430240210971083587362471173704109808005209739643719021097108358736247117370210981091210496319984902109712019748651362891021101070812582518031050210940693350502858770604108512145166120947909021094069335050285877060211001131933325368533202",
          "2587509998098860338310971296388150480682202109606961010014459648021095093285376216017430210961176480753697241402109908345108344357273021098094894691619847920210971339618454807878502109908945364754116615041098128928849178517350411010884307233272276102109812892884917851735021099116422295319109050210981112568923773631302109908369248709404987021095102270757548564500211000774081682244796902109706727610326162309021096119046060423870480211000983204921945273302109812411647759525460021098070758984571690540210991208988052061065702109607720280517856685021099091151067001993090210951191821082077851702109310949160124889132021094080069593198855990210931131475636638846602109910484568525456254021095072086706298719110210981336179811657925202109911464992854089820041092071820008380656140210991146499285408982002109212209351514204141021085122406281483735390210911268637776499984202109909823045155371896021099077596576547913510410930912232714848559002109907759657654791351021094097196479128926030210981207129380088213602110009783362009083109021097087405426203149150211001165798052746506702109911735981261851701021095098788110284901700210951159091733698044402110008813891112707846021097117662653099632280210981023182174530441802109308753981512868469021100127012643416653990210980705228726150223802109910132804550667490061091133033932067929520210991013280455066749004108709909391267056853021099101328045506674900210980705136584195099802109911299253938356552021096092731433273314000310930952780402000819804",
          "0316432720426594206410981095306320940838704108510975112552119670021098109530632094083870210941295259574676147402109912662140543464032021099079665220447127530210971050635344793143602109408103772518050388021096125496285492334030210991175514135182438002109409684257551936369021097133072387062335290210960717269394163463402109707732480761569267021098119644285121067980211000737180416431005102109710598965405695086021096109903002202461020211011040404550162832102109807049090907681625021097095190992206183210210991150896894389222904109010865376343549731021099115089689438922290210980851710585094942002110008385778242705994021099120317696536861430210961012488315675660902110012681603463436735021098082253190110227510210960734396513264324402109809914966620002508081094130047519507821740410980991496662000250806109413004751950782174021098099149666200025080410921233215004804218908109610766913542891788021092123321500480421890610960683860710819942003109212332150048042189041097082726922108326900610921233215004804218902109708272692210832690041094081326986389485770210970827269221083269002109807880518044069046021096079612545445201700210990702900211274846802109710955253418181259021096096053879477295320210980803665570887078102110107326910208019042021094113783493327364600210980842686035593071607108207029236520854379021098084268603559307160511010718814013403948404109808426860355930716031101071881401340394840210971172274572697783102109906780883947988593021098100980646051169410210980932940424099931402">>)
  @@ (<<0, 0, 67108864, 0>> :>
        <<"0000000000000000000010990912589152318082301110006842400314567114011094085068968042211040110910779734710258512701109907386576966210031011100109383450642628110110990904067733533465401109910137483213598873011101094515653398257450111021016322316075032701110111027423333713754011090088493529117866070111010761381824118516601109607784379629639409011100071766239295081320110991139418623017379701110110569339546608808011098095028847070279200110980824395185427863901110010014114943864641011095079465911536606270110970726551763870525501110006913542442439396011099103958102028730120111001166136305409248001109811104371808361625011098120315660431820740311010731567980166095801109812031566043182074011100124291813558073720111001157771253574850301109808682793739794404011097113151676161963190111000820938676564305501109907225265132907565011099114713891291394330111000703785561226586201110008268957211148613011101098253058072511000110970825110236626077701110009836850247226974011100075446303296624020111001273760072609334901109908039534157722912011098125811581393873250110991096702873689620501109807099293122342518011099100102599647993390110961138832652977504301110011052476844088958011101076478542071030930110990741019395071117601110110612364046105050011096115644819631747130110980750391963354885001109807979208552023217011099102482877183334560110991255936025710892801109907193302626929842011096133738875512380520111001340829301484550701109813353695266411519011096121944767214163920110991035136010368789301",
          "0000000000000000000111000720097586703418101109808279976026702903021096078821027275114460111020901848653396453601109809836202909531463011096123869046195218570111001207823375696674201109813385241341069793011099074010524246900090110941276182613218332301109910255127346098938011100069891091060466680110971238035012715752201110011255597037002030011097112000172217873160110991055294292634290201109706912793747662629011099123870044302719720110981241148916244992301109909244113720032347011101088886506421073030111000747937916597694401109912063274932441956011101095293498204021840111010681441251727570001110007823806355857794011098088210374390501540111000962816406492991401109708469405952748914011103070656654184308820210980905723270165595001109712667015959516412011101083152115594916310111001276579341216789201109808587713527400099011100120879501049806330110951026821992472833701110009097781336177693011100080302700058375870110951271886092361308501110007406728704028314011101126033565328981770110991075468954956155601109907590933739109215011099081367478336590950111000782798862025301901109907099591351476657011098072042650066995090111000689028062699867201110009678547315978987011099108760214543552480111010752004852223187701109707994940701168998011098092516457641170910110970671563961336562901109411367145849628904011099082854141381476810110991172185572307623201110107042012316663015011099094308577560138890110971159558621834862901109212224185866019968011098072022892159184710110990697446123798651101",
          "0000000000000000000210970697186663488427501109711745815705202986011099068917983582359160110990949574054291364201110008141341520505013011100089910660223247680110971329371780377507401109709367692552273430011099067867188586621510110990771982281198757101110012401678815709289011098095725018155749040110991244298113879762501110007170027627269897011098118718154117431260111010935953714792679801110011090202627812028011101094941840080833500110960798783814802272901109708251867752326556011096094227090120698090110990835869481726762701110012357424763520000011100102947970473258590110991053817582542280301110007422851621096493011099130591832300714950111000771857303844786801109907455704923162321011099067813871607431870110971168718544839095201109810198131332855389011100093578674099125010110991143616220729313701110012850215827359614011099096723969280146120110981000918914424139401110007111750543358707011101118142943244803260110991278844595674209201110006971233027307061011098079637198427070210110990778490413151193401110013284713766831365011098125796771027084160110961181369465586897301110008032833465858735011098067575695276640610110980698724141906442601109608690134058229585011099107653909654268210110990970492550292712101109911960578930714688011101089502184419854140110981059252521111616801110011841202036539825011098092708527452158640111001031519075095169001109807396735628011739011098121457198460753940110980885905935893442201109611582452818538066011099104993769534286060110990804708940203161801",
          "0000000000000000000310961181275054240856201109810459772036325461011100093921603550865590111010738247194495125001109809220591965876085011098069212196140122540110981166476914405835401109611015868460404224011100067173393447117760110960711977151035797201109812113428641581778011101112328107630049590110980715464721433179601110008625814036362713011099069258503625871830111010682582891640854901109912182536642262454011100099643988167511040110980776550516488820501109709541657654679424011090123662690485211320111000781835001153369401109912004738751268416011100081617728330306750110990877234894702116401109907712294623545381011099079162284449714130110990783740783590182301109508879968301914193011101072372640069867010111000949166874945467101109607041427637851782011100097807074291311030111011027247111148659101109711041693462704698011099103977771057327850110970687592850435723801110008252584004674770011101071380050195479720110991216004346309098001110009095031863378922011100077658742441370320110991017573453352007901110011879692611904856011098104356339456363650111010684553494641779401110207449238723001427011097105538947026384350111010798504533054545501109909581338905967436011099069414910520513940110971097225940839699101110110499510313469377011097067333085365684330111000983842874714730601109908215653255107435011101084457394386394390111000776653304072290401110207137405824534714011097110432799515425920110971002149710930694101110012091162464993026011098117787536175258100111010919448444267402301",
          "0000000000000000000411011274674706229635101109811564166041720111011101108723043540950020110970758017315171410901109912619818533511540011099106713074407617700110990824623972787698801110010186380101310684011099093480708092692060111000997493500785541701109912408279309792150011099125756511652700870110950969214931032208601110010024942620140136011102078185242274950210211000848751904639030601109911935999947439865011100078706277126879150110971267797550207886001109810873261135424757011101091611503312658160111011291999512033105501109909345847260109104011096112885318484818600111001019342900117181201110108371485316767693011098108759863602199450110990943020513464642301109607990970832796321011097110262846208956530110981180750136285445201109806905426552319945011102109360162346914700211000728837726505685301109608355116618911856011100077399012549591310110961122875810430279701110007350537252852857011100123741868276400890111001266411893330278801110107421715435972320011099073500115609082050110960697942624251246601109707173586359038535011100090678087196612680110981105599935300237201109911655150662844435011100086564050153604660111000983762625845634101109908190808353020806011099122028210404879840110950690515973297120801110111745991441244028011097111497301520728620110990879716750588117001109909070805635832624011099094201300201529670110990815920775834987701110107871568932361283011099074038993044881780111000901710690836272101110007469235931866539011100089540843116598910110960991597331236667601",
          "0000000000000000000511001333231651564323701109910068898938097866011100087332381669906370110990710586304906179001109412950480550213730011098116480919030320930110990861898601544651901109612371678555691871011095124173878561994940111000671566382949411903110012785991043958860011100067156638294941190111000731457861241553501110007824180223092642011097122247349468302560111010732203955577375601110009609729861532238011101067562899186168240110990695864100741913901109608896164661462544011098117542429356201030110990763827224865509901110107120477560208362011095094883254397567340110970692651704025624701109911592253940433853011098095196660126803090110990934035503810022201110007975789801123471011095089704182231684120111001189805971046847501109010046115814216484011101072074117590174180110991246770534143600101109808187816665258751011099093457407219130630111000876902671681635101109906936226862834933011098115850876229054140111000725694402820297501110009893365763645941011098097985636169710550110981009213401181850301109808245961541681147011101071029938639297880111000898166786242598903110009438777517607697011100089816678624259890110931065500234384977801109907604946858541883011096100346372623673890111000837642023833391101110006801311230853642011099104774475185567640110990804520341604411301110009504918248424912011098087086745632653180110981084811453737859301110108689475555909517011100085692963122995300111000888608063328602101109706785954555684632011099111219417464333290110981044618706694841601",
          "0000000000000000000610990927796710659477101109709848901742099936011099080894840347826420110990719250836407134501109909861377615811543021100108906453545172370111000935011136626918901110007422822026347991011098067839022650682030110970733061653456906701109707588989926356287011100096738217524999580110930956262724723407701110107518982608239561011100080055537169917190110980684037480899556501109507911357811882675011096104739316521812770110980915307366220316301110112621359253351815011098123456304486442360110980983888896401899901109807683848204775301011100126118372333415210110991044504090526470201109912469671650356426011098070805160570623530111010717281054956119901109807859616639937961011099088555643153395830111000756639984562659101109907262824812029274011096074122857357669540110981212396644761148601109813274235458796406011100132058040173721840111010976074144021711501110011998549562209406011099089360562067308730110971225132133013894901109808762127835393692011100100276656634372980110961055385751425077101110109748089718020178011100118171988342700070110990757307705738183501109512738408425827653011098125877132164322660111001122894643078438601110008787281640446385011093092937828480344860111020806564001246398101110010616102728494850011100118405474120528920110980912340256274867901109708999145812919539011102075139086558533920110960851828233330849201109712564912921914790011099105906976300583290110980823102776186707301109907230884559521157011099118225783252535740110980796836750578933101",
          "0000000000000000000710990949629691381922701110006880023204903471011099076309309034514330110991201396121356489501109711088142800450493011101113536029282815460110930837830146358948101110109426163919906427011099077219855269278490110980806739844722262601109907263003017259742011098083790949475966880110991207651056172391501110007205483145883494011100126449880301437530110971192236011102518701110110551772700898656031100122692740165440720111011055177270089865601109909876509126925038021097106092989268092870110980935156375641607601109911859010316609367011096080596677458426390110951289485403749117701110008211215223702641011099103737640295290370111010736843514216446201109812754815457291253011099069970142241238830111000792391395581777701109907067039050303234011094095215701269022560110980787264182904061401110006806574655455896011099085192069213510770111000937227534196264601109307130188535231500011099121310095080435520110980672015672729631901109809546311138165387011101103175090035423400111000942491844210315601110112735291009033473011100117312952274706460111010752639101492213201109707781756853930760011098081216174413818240110971281910555527464401110007705743462101075011100082091113023132490110970682989504659481801109810304017521906445011100071664652274222570110960737667372331912901109610544287606258265011099116958572570869370111001257620146624215201110109047455153182079011099094770411642508350111000876490043374744501109910248144056982516011099125769862247729990110970777643450370769501",
          "0000000000000000000810990722108052630023401110009710493716093455011099069330952655763780111011051653403937915501109910590872032819226011098079275372073005380111000730770644503475501109607602832243257450011094116521063409281670110990734561466324217901109712862210442524816011098093281363140111300110960879358550059324401109909185902851041079011100125037983153755010110991074950213578066101109708983036854358319011098076676794569312950110991105153371909422601110110277822961559700011099129262954156134390110950992961890879013801109907480460742864450011099069227153268382550110930925855201511527401109908892270934150756011098070482436457260760110970784854276219826301110010292426018284988011099124512470053608640111000899337314264536701109711119470533624948011098080539337417764090110981096466606236051001109711056775913374749011099093652751638291920110991257728353164415401110109588838707347017011100095020406542752920110960922735095589164501110012507921629338760011098130807310157713120111010800378654944318901109807408875365331161011099088568752476068720111010730477206010026001110008629718329721433011100069278257568296670110990892050595266572301109709349911127280592011101076175617360851150111000958417815231000401110009724943351589310011100117520714077394390110981312272870406459501109908309699762025229011093127866537633177830110980937023091168824201109911002094622538713011096109343225664796750110990972857714695985301109610128292844734641011096101406947521555440110990787998274791108401",
          "0528013673538673803810990705876700241177401109912154717538480814011099099851949241140360111001239536881960917001110006862599621216844011100076730620620523560111010683963135880493601110008339421465118722011096108758674579042460111000897360414610304201110013407883863560148011101072098158074151470110961264436682452411601110009286917806981557011101068757777422600640111000672572662315939603110006800593214495134011100067257266231593960110970788662961527920501109708211449761611466011098095774826545794140111000949686865408052001110109511930706557451011101080836552506508960111000887053946418725001109811432277449576905011095082268923484857020110980807656342107300201109812681472231319817011099109926716592657240111010784681345482646501110106915153604896077011100088173872575147330111010858015771826016101109908047123027933431011101128450608278532460110991195343805598954601110009518505942768045011100104990973179342800110940766367732014617201109712961809730946373011097107191659625354810110981144880510438107301110107218818846298034011099115886534141729250110930809568032949179701109808224373917559238011100126621979314122210110990671928604780877501109810006085562679302011100073735381070657970110991248321832205560501110012090113216224450011094089008427432613270110971133358905248550601110009783183827433914011096131833072270830800110990786935895233647401110109450939630382206011100116692491112300820111020716301682863062101109810990198334295041011098067934757562964330111000994556632759101601",
          "0241314135171454101711011159168920047682201110008663946560121840011101111268629601101070111001085298722842653601109907506848446551906011100074455171654914670110981062056182043618601109907483338435636010011099129479235288950190110980823619473213307101109911131261438357476011099072628813012019310110981240427654508080901109909143398133244840011100097011875555100620110981041965562087005801110009549733440132915011097095090372046235160110980761907401993140601109710718289734577785011096080047836534010830111000782485856164546301110011330190756041566011101084494619441816880110950980999093081050701110012696710722496089011099117606725151583590110990680722473732748001110007842134712851668011099080185954418803020110970992601471954528401110108678786602396836011100113612500196451680110961185179345287857601109907060203866017018011100092594649172425550110970983609294831904701109712590302604825373011097103922287257996000110971276530711036526501109907977522041561418011098122876467515627760110990804472300152426101109811036402847987886011100122353699591448380111011280669166568541201110110120813837227247011102071974234079032310111000949883494553704701110107273570830827493011099099208285304252350111000730483930245795301110209218597136369589011099079869435391120360110990791704930799417101109612423204950837207011098076052721457535640111010862143410599366401110011720883463563932011100122866415539636790110991036403253688131501108910708225004934527011094090110640338553940110991003295220723608301",
          "2587509998098860338310991013173584585796301109911231948608621409011099080323012175661890110970859053751682011801109909685299229288033011100115874672521975680111001266903525327882601110107322453937805048011098123930228334610300311000760689365809015801109812393022833461030011099092646097559400990110980937956503815442401109912840080636882477011098127379608559687740111001084792065606288901109608886324636188134011098128929366304880260111001184194302025529301109910554478163046707011099111647815561121500111001072544171232347301109809970968139130045011101104158304302992790110961086545870422938501109606925238309174129011098081470888206975190110961210108916618986401110007022541242183369011097067679876524294390111001225954795545757401110007856835650329915011097072245753258523310111011125383026397369201109612436576201218667011094089737455618618670110951295293944548813301110008777736509479364011101067851933118838550110970785330252976155701110011210340447821710011097102847024535521980111001144703401662311801110110880947707320824011099116900263302029660111010967295632969359601109813134770931126658011098087079288380809550110981003136192549322201110107035804029649101011101079395209458203280110980719532504153958301109810915904026837245011100113529161011365840111000710494446623959901110010539140236665792011095112580040419602840111001085229150238683701109407857392016086539011101086451719175449250111000855084283503445101110011017329728661259011098090139989001516630110990812194051152469702",
          "0316432720426594206410990859210625333171501109409876583642607274011101090344452218117630110981233687950797940201110211748789206304277011099077062013106103590111000867025903478188101109910108417133785334011100079297764296114590111000893203015001787301109608616563345331624011101128584032605684960111000951000366203499401109907406368115631865011099087430845095633280110981021539170838742901110009800217555119869011098076058328574928630111010901935710806789101110006950057557652500011098082848514503028210111010846084775035650401109411943858657634086011097115100833053238010111001155730883320142601110107836696856906404011100075159176528395620110971317322963860893801110111720289736914089011098079013316057748600110980956610696394197001110008492963533905661011096099850893591437990310991174440110627042401109609985089359143799011100102740526046496760110991187438432553710203109707064011362217631011099118743843255371020110960738450315665051201110012161995643153589021101076081497006635250110950879523252182550201109910613284431839370011095069086645072433800110981079741940774618401110108581905309080003011099100683062137986230110991183017814419497401109812425324839928036011098132107895279386580111011123610340496763301110206984719840379349011098108653524560962510110980858367572571054401109210667677421147449011102086089798241959530110970694258530243392401109709201992658188785011097105868221478619220211001214657823422172001110006874081052399091011099090495780258409320111001322435542225639701">>)
  @@ (<<0, 0, 88320231, 63697254>> :>
        <<"0000000000000000000011000746736963458908302109911509329829876745021100118389411535791160211000731783734692023002109907269483321810811021100093049912640217570211010981495942356540202110107557593638039659021098117350574345200920210971000438066427434702109813027512617922255021100068738293410611560210930877153493262324102109910487915920863591021097103510342638071780210981129814463433993302109907192928038010302021099094133375004302870211000973004180297635102110108122949838072026021099115527610120568350211011025119460933432402109812342912661520744021100092208468088545260211010730821813201820402110007240478007323527021098111291705398956810210980866886055188720902109907989133360410381021100081710958398850280210980760209444057548202109910598112862048342021099111829641486485620211001088716463431028902110008128684342815612021100092530146640361380210981252610120747847102109911539623922751728021100133063181325908770211011117737386530804102109710116446011506227021101113318963480005110211011010601241922158902110013278039210220557021100085154938573216190210990943862111490043902110110913687325259938021102075301195370645410211020682699452564811502110109891583338058104021100092697642356270590210971104135614977078602109913130946615134765021100119973792436354820210970960679916329278802110009588402335009102021100098880920621198100211001239394103935261102109711501610561166909021098123990039586023010210990819364602440507302109711779804963677811021101131268406538927340210990763091505664583602",
          "0000000000000000000111000917164142149406202110106855097424255227021100090466639616111300210970935604056449583102110107318885700591749021100100326816191454960210990725800646391399202110011265699047686520021100093299303468728820211000875175112971902902110006785959133656270021100109417782182647580210981123496041117176302109911139101353620075021099077590315095178050211001143507504016262202110006862866455235646021099096689710665915920210981056408083729033502109910055474766294520021099132987543098142770210990985243164464460802109910998682252015503061101079077407183589490210991099868225201550304109510247500460669549021099109986822520155030210990833240934478326602110008120915747341301021100081490658448461500310991162538876341283302110208274850664974915021097129482173617769940210990877683846448429702110012062814940129766041100119007617653483610211001206281494012976602109907464964010573354021096093512941008051960211000777306924135539802110007347210456778249021097106881252604181540210981205596731225325402109912254582461514155021098083803315552659860210991192532536049472702110007250895720599924021100068346505239489190210990753541650384463202110011386194253018997021101072388716070900470211000896813776162475102109810047610160675268021100127582194322626940210990757994900547158302110107171622746458177021098069029171247484140211010737057592240714402109912924965839021326021097103001211616611420210990943886960027901302110006961575855943552021100085814193427216200210980792502263872518202",
          "0000000000000000000211000793442640174664802109907385661804151474021099084221353067854530211010875543322209042604110206818731547515058021101087554332220904260210990931673460997108302110013198591530593430021100086483506656531860210990710832430290854002110107735249220721953021099094744995659438190210990928088946404298802109810416750510562277021100101084030147553160210991191378312321261902110010928504366749751021098132968352105346430211000747530512372330402109809047451822982953021101069631941488786110211000792676575203308702110009047764031154099021100097203315299027550210980758887474262686602110013297880639771027021102079803552116891940210960955658630500900602109607733788364849625021096127212581450865720211010696316086103415902110007488966529852503021101083422757249120590211001266321080924633402110008097465661404211021100086709061386929150210991105786254870993702110107112040711982515021097125825565569571370210990833565794207245402110008346884432588264021102068260767408609820210981081829562290545302109806824040230580028021099070252563340883630211010768663716266744902109910303845511381409021101099556720109690130210951072169030984158602110108656039925368000021101080766417132268300210970754668994716423702110007670470960922536021101092200408604895260211000719742353076170802110107865961402922180021102095923829340651980211000859046901609321102109909800172327016327021098107218149431279210211001191419306168546402109910741876354247419021099109519017067371580310951216100993274334302",
          "0000000000000000000311020790547613760131502109906986141457358388041100097859167172491980210990698614145735838802109908037584765724300021099105244386120116820210950696640040550391002109910338566937123487021098094048900056204680211030782541365575105802110008214081929980769021099090325506386866530210990979029653251544602109812297233835552267021098070856259589375000210990864369464107082602110010348958429202577021099102638544452124440211010761950362040936402109910706269542029637021100067577732583812950211011157523574648544702110010926797858350427021099075451579390253920210991090386715587851402110010884187121045520021102074154700304930440210990991810814179335502109910207617824574462021101078814840500130890210980912347031506514603109808314862911285455021099096769403636109910211010719050295907289702110011258398724974750021100072228236244283350211001213300781908374302109808197166555109166041101079949642544666770210980819716655510916602109608923310409608823021100086104284067870050211001243960920949250502109908113198064574778021098068527598277235610211000677039351366243502109912500669909529479021101105309842133853860211001292164872298432202110007970318404782633021101085495696279632050210991064017093934331902109808616072265949042021100112936735583768920211001127920682581621702109910533234641563040021098105510727232615890211000824004146595977302109207103015409440299021100123340818457972540211001043384092556106702109609547688148024997021100070117072553682670210980814290070529355602",
          "0000000000000000000410981255912955467135702109910999328230362231021101125049191589236900211001202389675909255102109609493297364932907021099131210114287000930210981302436595680796002110007634105920445183021096102208739288609790211000833780396395677502110008288191543251131021101118057419156065300211000893385914843262702110010608033632626606021096130279984094447640211010848799893947340604109909269524432806101041101084879989394734060210990926952443280610102109809199904525139291021098124863585365571710210981223385574611694502110009461470439420329021099117792661421801400211011109605783156500202109512024685022934955021099131491709508329680210980905029782024388702110013220423147045930021094100624562157425400210990912524391733732102110008094423310337786021096132629189199582740211010778025020934144602110007856868033628598021101079085301168431840211010762779803007028002109807952909614189036021098103360502078986180210991066544813187398004110107585545235774799021099106654481318739800211001292739690422509902110107015348830021514021098116430375062452770210981329664162736198202109810335663239960946021099068436781048001130210991027095025479280302109911512851339957015021102079870751229935880210990753439051710036402109909709401441549172021100101404485481947070210980827764443085939702109908868199823423511021099133681251654861710211001320217722095879102109709141705756279475021101102867045547711620210990903434352961458704110108925215404742729021099090343435296145870211000778756562721722902",
          "0000000000000000000510981027723404554840302109709004376766906865021099101538458118019730211000980623820300163402110108703748827899311021100073521611637965530210990711868716601349002109810522614700327909021100085812404383363150411011227227231760861202110008581240438336315021097105787835594032700210980821401990308813702110111996653220573863021100080389514535554600210960768313072206439602109912107553233505108021097119090801118139110210981292778704759985102109907704174328065967021098115871542006659370211001100404154134713202109912368414900521203021099067991603401107200211000971287121469170202110106899824705290234021098079422327081537590410991006060681329125702109807942232708153759021099110177522047345750210970958873346412473002110006733668327899435021099126924298197114690210990954101990339920802109807165955161209479021099085897071304174040210971338470672693839302109708508595019869958021100082063763356379200210971300401620638960602110108923155653158864021100126032526664450340210950746343143145859802110008576167612270193021097131643744577005670211000681743510716432602110006889612005789421021095076808121399963090210991032172094419732802109910071052437561657021101076441914385875890210971155318133835391802110012824329865822654021097132223372496840060210990925494656139820602109809739798216367844021101108452066485209940211001114346103669151902110209901475516831645021100118536252359825720211010698252643799281402110106958913060757331021098133065145552788710210991228013042543903002",
          "0000000000000000000611010818744623713192502110206719729504385876021097099875363583460360410991143827723398172604109709987536358346036021099114382772339817260211010794950144820493302110110150055533269684021100119707647558029420211011120506882136877602110008718253930251123021100109842937166410220211000785704940997059402109806880392253755751021098096557353471403320211000945635292848172302109906878471552674022021101095933094229480150211010973524242225634302110206814785460871515021099128462308278405060211011037387632048483002109808871683164072354021098100744172450402880211000715086913367926702110008650105610262688021096104287971441629660210960770934264221023302110009250561100353685021098094454213553916960211010917126963194362602110009583486520928985021100088570275099121420211000808123476687196702110107263104052406176021099112567709543471510211010838737003490928302109907357082167074872021099104172039154812940210981209898631495559002110011423707263750775021100068366810247814590210980944436160921266602110207722286460386093021099089184645350982300210991170242593965474702110009580231432964300021101131961677231075280210991131267934311615702110012466423752859012021100072743946185895760210970690866396507527102110013391498010151972021101079909575405469080210991024773604058263502109912985799010886670021096128127914020629260210961225633181374241302109908636479426533495021100116971334411404490210990787680480747308302110008734813960975322021101076778403053206550211000725287571200901702",
          "0000000000000000000710991320649662025261302110008788863344241133021099098684880226640390210980906940281441439302109908018267852840534021098078126582070137010211000700332590928987902110110066339800530703021099076651860060594020210981307411286647115002110010420061232213865021100092656460641383610211000732150390234159702109808558544004387419021099128047293030588640211001238645024460478702109708683136436962760021099079901817652775550210951164632556599198604109709586701661418391021095116463255659919860210991030287921051297502109709968851149171639021100085693174082435730211000769381224095219102109910855980713114680021099125552625203832300410990724247441341461802109912555262520383230021100073779591303238990210961207519673479077002109907799886936884666031100076205851117171070210980796889862513439202109810179519846595883021101082350076314448730210981019790294466887902109912762121046350141021101072008609340787490210990684915902697968102109911759001854993580021100073575823406328440211000702854871853799402109710730334133543242021100071146799083954880211011019715760677136202109611653461329612289021101070617546649944920211000742138283386870502109812727327321985996021102077154751430317620211001307697361523956802109711211621245565176021100071033216274278700211001122365125724497302109910834363322613941021100122613693484697130210991232472721808246502110012104495154537947021101107702800303515030210981217579300234408102110008040896310142503021099079360852494347790211000747849183553257802",
          "0000000000000000000810970841593180253751004109708804721563762365021097084159318025375100210990904303314550117002109309286075461004828021099108330205198270180210980822669106365953402110107252551427372591021101076142057449651530211011043504714257750802110013131759439377258021099124970440041092350211010706402800287831602110111268064348167138021098125298927488331420211001154589754609027502109912630436215491399021101107812245654299660210980978888445619769702109909570976721994219021100093112152126916870211000846553661519554102109609535018816750896021100092929468550857750210991167544483696698502109910250417320354404021099112297912137179560211000816171052772739002109512445868314646093021101116263698196248100210980945544010645383402109312620064506429861021099121292028475114160211011090969664516981702109907423214460798859021101116171952580614630211011166088981076732902109809438125940635659021092084581703327006390210971054501524826654502110109034302250264521021098100680110576477270210961257000120117051902109708787763320240901021099131925191450110360210991284577790781710002110107131964149114740021101078028769505625330210980853618664870105302109911212385538445897021097124964084166971850211000708498404797185602109712159780013358087021097111933866313558140211020830210055095930502110006812890502206664021100118660430519253010211021049753065518108902110013326121352224204021099117289471426742100211000696493986102454902109811114317532629001021101084414558062076820210990926558511828062502",
          "0528013673538673803810961227907390272962902109913119314043902256021101070053020602093290211000865839492994508502109811544527309504722021096110316975359080210210980707691123461380302109910674356616999236021100084109189629718520211010686371495506220002109910688233050945938021100130432919164770260211000680862710233770402110009478501733334998021099100069804648217970211010680496112185989102110108317115016834173021100090315654213022380210970735477252188535102110008724836717148123021101072955174409539640210991062596000126332902109810104183101011495021100126962203436785590210991013148682923945002109908494705542793767021099112808557374876640210960877747735637152702109810469378753334887021098067274818565109160211000743176803975712902110009938141228898858021098107975123350312520210991112354920224982202109911322488016745016021098103144733387033250211001007078671827736502109712790883548938509021100118360978058535520211001232731110022435102110109969132301343534021100092808809081588010310990925236722548153202109712924036010699264021101075767379026281630211000736426170493254202109910961766939277349021094132378818441841140210991285588902634208102110108043768519601164021099121052912335559440211020921312272979360702110011922517323385814021100123444426328630840210991103752363495944402109910013001626279489021101084745273335616450210990864752111789949102110112946888550718014021098077141625307282700210971244739320491126002109710453840964168652021100120841979588059950210961218505222285551702",
          "0241314135171454101710990942852030159229902109907504850136745656021102070622263181120970211011042144390118799704110009288319649380544021101104214439011879970211010960041102968936002109712326260538048519021102068243566348672570210981284173071377025002110011864241215429605041099123565064486282540211001186424121542960502109713295655139531522021096129344454197451680210991214099192290001402110010959030438644302021100091153820171826860211011005817012567541702110209316633054257793021100070350161222388040210970717902351160746402109806721988765537231021102078117749202582780211000795624254084536402109810310596111332533021101082774167121334970210991234545955542616202109912838993436621069021098092202791500276340211010848331470898214102109912124040950087065021100083426272363506160211010719869743068935802109707040984861622632021096089715878426985350210970673891540950478602110108260243466722766021099131825816016482100211011058149274603420302109812532600821457833021102091759321415741520211001224655032644573102109812691039105700691021101084607653198840630210981214079222723806802109906927153722314506021097079837185545727820210991065092282514492402110108579508926607672021100092896859239800650211010732638113137247802109412645176408206510021100122932240649678420210991201202960587877402110009164915750481988021099079206983627562460210971073041021209875202109907229760641046832021101067682327066666940210991071399933611961203110006859902323843329021099133779793080050600210990904496882432093102",
          "2587509998098860338310960778980223623969102110007100609039725532021100130120785599717870211010959546156065176702110012223219335153151021101072416917520683510210990917940595361783006110108745839764151388041099091794059536178300411010874583976415138802109909179405953617830021098123334738409202350210981268203464278374504109906832123612213362021098126820346427837450211010959071671604931102110107249976907674251021098086763234182595600211000709127263988796102110009834656002085935021099100758180047315780211010675632914313493902109911146176514874822021097109837987567213500211011127383443107328202110210937061608595342021099119150735385518960211001272505443612954802109911392511404836360021099073722765403182970211000835483941077792502109707025001034502420021101106941827118662360210990846337435308884502109811423309149866082021100069739288502931900211000976110212388100502110006824068953468973021101129524826157585520210980714687143953321102109808120825411568523021100112016813654585730210990819638730732571802109912920563112148969021099108714733244837920211000956687033871462202109910437833846046190021097101784349299657080210970764685935332143404109611167164903454978021097076468593533214340211011136959186215081202109808109784060623544021100100024718234437210211000852761890627878302110008751850804387540021098080924419648080220211020678279793570518302109911786465242435025021100079566600127997640210991083008521802835502110106824230717641428021100113270731020624460210990744888093987337203",
          "0316432720426594206410991314774994313542302110007330039655033373021097076714329377421130210971294416792851747102110007965445442816202021097117387826073412390211001203548730293345202109910576268038241303021102069613275115101050211000786353982753933302110010247238321688320021099125163210450257760410991136863644191271302109912516321045025776021100075935485315726030211010931418262855170302110108591169245626097021097106230563538399090211001179133673054951702110008133008606747597021099076004589366588540211020767973672518525502109908881965441367375021100092223631483159200211001280899504917583702110011420137719677182021099080862481576913420210981072465416318458702109909748920551220455021101075412752198636070210991197868791267529402110009776672417419331021094132080537377652460210991242205904056870102110107264945014349697021101071839210133861480411010703706232297705902110107183921013386148021097108454920127763320211000674254655202652402110109535830654380555021098115890958497913920211010999619722935555102110007384919258849367021100073527334434307060211000760948633943518102109907111121453961600021100075679971633865900210991110159921979419302110011882740026240153021097124407826477259620210980905656613884209202109812184175729712431021099069676531315783250211011002330625928519102110006765662530156026021100083376123439523290211001003392941557017602110011358508131239166021100097365616185752350210981108284126075342802109812117979212408835021101094552955454563320211011074782736050540502">>)
  @@ (<<0, 1, 67108864, 0>> :>
        <<"0000000000000000000011001230984645707636602110010078886415808731021101088506457208184350211001211847343461945102110007156207863385317021101073095776641721700211011335648151579189002110110780036951733092021099122571771571985100210990682693253205101002109913214633314142743021100115466812094278110210961142574902962905702110009394328045162477021099069813252019928620210991192910170531456702110007101093832348904021100086621818109943170211010757175972221446602110111433099505689204021100101077710537019690211020692290011616054502109912709808048134250021101072574769370868160211011049007085305736502110012019237539942285021099118015755301446190210990989790455344031702110007669412840001449021100132030355090390840210990903965703283289902110009468687547826549021100098612658368182640211010827767254706496502110013149536827229030021101072774026322939590210991284539021356451102110010099035847786362021101097222983370956110211020743848336582753702109906876976320035940021102075240248186570630211020684161116620226802110109705622616760254021101068179930608318720211000867956322449624102110207292203641114256021102095534814225839560211020879511860455064602110206721303934453860021101072877739046598560210990728533381895151202110011146265653817108021101089454160345852600210981329666692397975802110107484575262869545021101076688364398838710211010918190214242737702109907485639728216598021099127513621590430350211000781374130470101602109907605842604111496021102085087601324193960211000741503055603289702",
          "0000000000000000000111010722697863648480802110109959968129290868021101071494106279819770210981306961976649075702110110502499824763886021101077574561552650400211000714795210518351802110108506326839711434021101073250066527355850211010696575944369403302110011432864410840933021101083107275403439390210991188145896562833902110009831940737743964021100075062474173041180211010860830170031666002110011532493410808974021100088375617155249720210991137235274585430702110009101264654842961021100112555006125634300211000896294753991542902110113279723360299657021101111851848461531900211000973793553462928704109712027825053866170021100097379355346292870211000791131083003179702110013139732940682583021100131752515337764900311001015603464623139802110210348824610664159021099081040723057245620211000822194031284028802110209964655411382530021101088876438275464500211010898450816552610102110007296470441965028021098084817997373288250211001269931635308984302110012156111516504339021099071303311333221710210991249667316398347602110010572183101669988021099096680317307446340211001035484704940817302110012032610603247751021100114959612522326460211000734686040889892702110108578893358922112021101104092182479248130211010710059481673095202109910976151530221133021101093982622658531280211000737866822450295102110110330718304060212021099084635429490988010211011056269294191921802110011011885459606468021099069587245148049190211000867973401061346902110011660115704803379021101068592848360604520210990930194414354131102",
          "0000000000000000000211001290396823595306102110007239649229663439021100079742499490400760210960903650132540355102110208786159357237637021101121571788396839050211000859569866216083302110109658748811267178021101069011597267646990211000704006244399380402110110985881831875686021100087042147160579760211000857100013037547002109911259723727027167021101078037953529100330211001034721113560068902110108302695606222485021099134118769091368130211001231998622269588602109910197192357237730021101100868227488843710211001289426614189497602110107150094040367911021101075657884031565670210990902887083917632002110109717323335034002021102100352196266772850210980859244241934781402109807585180016496351021098102277575401824470211011008678373648197602110012337438626826915021101116849339266663560211010934191135999542802110013110130844555923021101069152607496559940211000977757801663456102110110261090239294503021099079492501384066950211000791359163259376602110106712174245689564021102087941235350814390210991156597951831524202109908397789604787468021100069800112236570870211011092961511208386202110009269832664955925021102067572926236182400210971233012080314823302110112043820144995898021101113798224154763110210981138528885865967202110012568862227363729021101126850677069662860211001196393836166831202110111136961041673014021102117389097522818920211010686494941956149802110008927271010086038021099114925981327942580211010889567874245630602110009565507631614556021100097065746616291130310971322430785902523702",
          "0000000000000000000311020995529721142738602110006951689962755542041101076061038524622520211000695168996275554202110007703663803412412021100094189872178114610210970979954781298968502110009293344212465493021099104774532183511760211030896751521450026402110013257217509051799021100083994379163099430211000892052541462850802109912675941733763946021099086152404179949880211000812917145684679602110107950691626817818021100092427366609135220211011085183783435705202110009541547412298013021100113963079237939510211020765847204382943602110108301662905388470021100073538212016931420211000967435055185505402110108275869749379812021102094303452276986800211000900773911079205702110009204603951571824021101111548817533851950210991025698003546671903109909615649010421934021100088430165238333400211011035276661488401002110108501926963509428021100119965683037373550211010902641120749278302109909521264422309123041101112857621293745130210990952126442230912302109808249001346953372021101068774398195704720211010920907150713026902110007757043713298180021099084217495643195510211001141267900561823202110010734018505202628021102070791881214499350211010949506701192294902110012949406652433510021101119222168607478870211000949703436537857402109909855965758294566021101085231833487053710211010851446686234859202110009424923958548199021099113624208223233470211001328991823732694102109608079578003442846021101091462702294854170211010800241272821876402109808587660056425361021100117248250498218340210990947765312599916702",
          "0000000000000000000410991286979583124365502110009738368430413773021102081693303642822270211010896126133898116702109808558401435528013021100111397915632443490210991321232440462439302110012522561739574706021098089462031300177220211001341293324447840702110013350532141732595021102077855406451157450211010707926636645422002110108108372720087050021098103802930446650150211011185181200390104404110008563165842767540041101118518120039010440211000856316584276754002109910316993952826802021099128160073149849450210991262891416259639002110107406290203657975021100102581327262063200211020739341505191782802109713141009148561978021100111581392596087570210991019943252839766902110109671633001789621021097083244616555499180211000846356654658437102110013106289411029073021098104965026393034620211011103792994772141802110012805677341357555021101111860957199390490211011086145186020431602109909324488961122854021099111978999426000230211000951406221547943204110110812463203182559021100095140622154794320211010949846893359188802110110147937965397910021099121882754251766290210991341173540714247602109911197603265033989021100068482940065976900211000924754572707437402110010081229111946795021102100423884314481950211000734612720150829602110008865227656338616021101078233917574447010210990958583212176423302110008285457163050784021100113005954476574390211010966086512628868102109812874425732129659021102069427623500914170211000840067934564516104110112350462462862208021100084006793456451610211001271772790230808602",
          "0000000000000000000510991115278216219667502109812748797526779145021100091681100014479320211010761858790106124702110112098251803309072021100121624530165848140211000704754503575114602109911340684315480995021101068591728400392670411020804189301208326902110106859172840039267021099070821169250659800210990953479664259506002110207890575517457266021100130362107289179610210980755630614956247202110010475247660697471021099076614851290008630210991314140740353157102110007467222905974646021099121463813602914750211010834838530582311502110010647106044653933021100068159042085013850211010756120010618986302110110012487545296676021098085397064538079180211000910475465003205002109909315859321189952021100097507134575270470210981328035592337676102110011365025712648382021100108597796219426350211000874987820944062602109908681670817765787021100080914854390757550210990828764762669391802109812291426338524025021100132475080163220140210990812761353819314202110112348120263364109021101093063210422644190210971015550090375904002110106855997141799515021099081951465105682740211001147366052133430002110011567100511303170021097103087780195754340211000928193862150124602110009111857227377325021101108804496326446920210990750797093260563302110109437441038755754021099082195129436574450211000855311450807555802109910738127219890461021102072541495409557040211010843260393274961102110212062249560837974021101088594361018559370211011010948322828362202110110081803561768943021099134189520226988020211001058900791648054702",
          "0000000000000000000611011150724040028726302110208678725432832623021096070799305274837690211001003159393657061304109906819399445359554021100100315939365706130211011123335594671143302110206866285422237366021101089295081321392540211020745382454446064602110106944844062157418021101083364446472466710211001280590735014503202109908444782262449953021099106728667606734050211010740313086420063602110006873581952031628021101131069022444906540211011326679580791174802110208781880364449690021100109604316600848700211020699148812387473002109910058563201603180021099109968124279686290211001190408753507193902110106902257036684429021098090556633141820960210980757125305017265002110107275883146105607021099105090974567903030211011262980426229366702110107481546161041207021101070314185046884290211001308963450796587202110110437482425579392021100099105686167663060211011173661200161866502110007219144823957167021100093465450481628640210991252868655344344002110108601463953464962021100114985910048127650210991050827042071470602110209759443425199298021100083203547670800110211001020717581245461702110107479540304453932021102085464889312490010211000994788060979690502110109225018200954661021100120627650570411400210981076873576095817502110109772500331776269021101112811449413351060211000923181071149303602110011051606915832762021098102733713602137350210980999476806072907902110008124137230670576021101087656800411820840211000758986544282735302110106955185460345695021101109194283233349020211001203515193462810302",
          "0000000000000000000711001119547173545612202110106988918560059776021100089739026175614330210991021446690803673802110007690012746532711021099092109371203876150211001171401134512502802110206819374846355788021100074394573216825380210991324881521407171902110107994020342896755021101072852242045053370211001212317290626592402109909810201622208426021100109332904221507490211010917744441038320402109812453146928889034021100076701543520588240210971290835154631164504109813278521021197414021097129083515463116450211000926917815517718702109906811039655684858021101068517083448793780211001259856342375292802110009642202822973574021100107698523207643960411000713677545115448702110010769852320764396021100121954879259828240210980990338915328901002110007535279628822447031100125053385036353820210990933740766647304702109911077714115388284021101115618683406136830210991109184746054884302110010905411127985454021101103648595326859270211000685227910971491502110010244699532913388021100121693964043573860211001174654805912929002109907148913163168784021100118575214559042610211020689265976039814902109809689257523422749021101102022682363052690211001225105390332619402109912993897803337750021102097521521549208800211010958692410174998802109907359648343401552021100118428989408193010211010848097963911322402110009627682820978890021101091029566403489310211001061836431366397702110109009393864213582021102072124824506261250210991258579062679368502110013038668861461098021100076318706017222880211001232405765520616802",
          "0000000000000000000810981220524942860433604109812565345536177410021098122052494286043360211000840669570500740402109611703642037309325021100096267807261049850210990954496711792925802110110425175537457989021101108456964196410640211020702565244115069902110109619289948102108021100107316376300333950211011020492856293737702110207488704205157127021099128481925159274050211010867491400229452002110010819155345032837021102072185708206845550210991077618276553087802110008770424852121685021101073134287531190490211010678667201922423802109808580848813921118021101073021241130320120211001018927052462593602110009233628420722776021100098925522481467410211001319120020381481402109713397489550739514021102076866840612855240210991051691525578286602109613380279562292910021100104895327449529650211020728998681318234202110007266569813393236021102076816232418421300211020770572192448733002109910503403662413828021096085959223251587950210990706720395751722302110112474418252739746021099109918760108480650210981015219892263883302109812549718561611047021100111863714388032310211001096013553718770902110110284381120278940021101110640860212596820210990979239932331398202110009880925526316208021099079126326597991470211001181928384404914302109907769012819227251021099073517017588383220211021037778551194622902110011467772025031460021101088668686632725010211021268310814165578302110109733973336294974021100102247694557069480211001166446014762583002109911790348209394977021101117985499647161030211000856044995851937502",
          "0528013673538673803810981000621653998977302110011138685434935383021101101361696239505990211010690743974865608902109912114399514518687021098093698715643930920210990860802392971748302110009520061762939489021101067523984078775280211010997009035698569802110009529405503217154021101095670172283917600211001146224733915673702110107416802751512460021100090682718570977370211010990104530767678702110111656085061199912021101071400293216487740210981120122960039099002110106948955225269072021101104752701078390820211000948745834707391202109911019741102459171021101093614960174884170211000915292601676590902110008025070108244973021100099266459056405500210980816898916240468202109911299991539116582021099083170741015153200211001226433580764732002110107699532112794405021099115501828426582800211000982153863366124102110009954423619204045021099111813542149063900211010778078135642532802109908037574830598151021101088489434187068830211010914223842258873802110206764847762781422021101072946558211956010311000855133575589344902109908093863446554723021101108022475239475510211001217795016559231802110009713189955890818021097095458252662411770211001096674601034223402110111341979460676059021100104737549143088840211021134079533332283702110108900657914802324021101091524392320019090211000976395766237591202110009072369747992916021101118363992644653020211000813184100737709502110208410727840721388021099091309387171373710210990789177401623175902109907026884723251170021101089972766121722450210980995885042935708102",
          "0241314135171454101711000867262026183114602110007325008703590636021102090496983500224990210961032315080565024702110107299260233386801021102070180569162635690211011311490902662781502109907840148017673101021102087922585479858990210991307813451818998702109511573124210307001021100106392731669780610211010886579024862386002109908250301353912672021098103338681303958020211001049730983557587702110108321164837271137021101071920796327609350211020681479454061336402110211449605856499375021100117548879626608240210981103163994031130802109908312474825719993021102098551766352803610211001293159056360593002109911178380319835496021101116105461399034650211001063200593693832802110010955699536207983021099103329746394472760211011184645313356241502110010486127138671044021100134189969225385030211011036233382462889902109810897720305723295021098082754105062562910210981060236274687642602110111590838116745601021100111799005058406940211020710735105949744902109912850193916989598021102113016715359003920211010909412505341006502109912967149021240044021101118206512539236520210991255977673784118402110006908925231814966021098118002354560614660211000950427812848502002110111956429827571677021101073001058517265700211011051123153774469902109709325969954056393021101091219361107305270211001041216990701355802110107222808153401980021100076209730255289060210990714894664522982502110007127623635715105021101098578449026344410211000954674995699159903110011528656712551621021100113069982334719670211000840803573419392502",
          "2587509998098860338310980761704530924228902110011839406257778271021101095485633118922460211011310932880456959702110109080217831325177021101104125082385186110211000850098661922469306110112146244212899034041100085009866192246930411011214624421289903402110008500986619224693021099127028120263012240210991296050945336793104110006839891004631587021099129605094533679310211011310397891342673602110110422172700936635021099099038294070081080211001182738333003089802110107636039637664776021100091150971652580000211010984383735169228002110009836672202319912021099072601540046487700211020749189791266082202110213138807837354153021100103480649042999760211010937859791472890002110010001107334307197021100072300477568482970211010671717371449385602109810882171625585536021102071701308429931320211000800313845747139802109912023329647593800021100116760674452878630211010759085470361743102110011482255015414507021102084137775068766420210990866590340392756302109909459895002921465021101084677307066572780211000781567154588288702110011009009541873074021100096526060333490740211010747130575164983102110009360491037159082021099069046033563623440210981148090151455034204109809439847615748250021098114809015145503420211020754487273917770202109909451009229052755021101077389551562931340211010682559092694755602110106965821651127719021099094370477378098740211020874718454256413402110010262904123916986021100129321190314738350211000962480873140229702110109923698465595778021101085433014405004160211000728495544260233303",
          "0316432720426594206411001115721353826116202110012134111958587203021098115043104614821430210990810236300653043902110012943239413732888021099075881575276839750211010896818570974733802110009453957037976352021102089406114413608980211001281413822866058602110107888633925647160021100124708847410380770511000998519541122517402110010744294205555034021100124708847410380770211011279164400507544502110111969750718082482021099071016525490425390211010882213815047917702110013154993365059148021100073933065032177930211020971388481492095202110008295017665210936021101072584164347603140211010942835555983487302110108599316663460671021100077380282037438950210991149475941955810102110008892251452776392021101107610993161741480211001039013445462005802110107600423641553162021097095348390145888230211001068237624664535302110110439629157076305021101103450810205813040411011017336500084824702110110345081020581304021099071995265052746390211001137654943983584302110113042071840672718021099121478376306686630211020678003555880693102110012204397564438154021100121631860128080550211001249119712612542302110007042082351466514021100124383068393917350211000980685334231888302110108876860902535273021099078889595022375000210991020436600392610402109912592018917445876021100069382934372323210211020679524335578920002110011406542465384034021100134126923295583650211010775822015831916002110108562228949910507021101075757686223973600210991176654591999522302109912542813659937881021101129511593127332780211020719999005390882902">>)
  @@ (<<0, 1, 104772440, 31714144>> :>
        <<"0000000000000000000011011008116143065095102110108637818933983244021102067129285154202800211010995899803189343802110013332938626522113021101115348372262418790211020936651393578234302110207866241744234715021100118862861362033670211000781559681290793002110012565050702551996021101095922617411760560210981152549143977064602110108185455955771213021100079383934041594310211001165159351288751202110013256301615713781021101076958184056366910211011186017153885644702110208250368459989179021101086567984409417280211020964724824995583102110012208278032445155021101114699928235054860211020769474702664750902110109895538255334469021100115600591111224450211001017108991809476102110107020949909274643021101106477218106900340211000952912625726036602110108234838141362675021101084945507112340920211011272850812004157302110110613948037765349021101114948000172020560211001230433534819417602110108651059617322165021102072376570661658190211021023506596450783702110007855460113708327021102103321216646669350211020955410680865704802110207227678413350545021101109203239425937030211010770751752127429402110210068793453337697021102126010539406891660211021176021402113278902110209416014758216508021101115077082596805250211000817860791083577902110109333825002705068021102067703013614271430211000767284331179393102110111752165050492752021101119802285289438220211020691311553455278802110008335785362222407021100122377372192940590211010711991591658951802110008429705855593272021102114406528508837630211010684575842328815002",
          "0000000000000000000111011143200422495340302110207379636724805860021101113352831245210120211000758169904202877402110207702110216791909021101120896416646811750211001332146521262139102110113007556356525341021101115540275378970760211011110568625214302202110109518941331264366021101127689125001588830211001161741743016531802110108475207323644832021101069086928029169490211011313167614655368302110109583127948323579021101078136913524635050211001125066745638747502110107990223114673043021101094044644562980820211010789773255754746402110209322365156629670021102081048816000704760211010841313871293865804109909050516634685507021101084131387129386580211010718664743992705002110110607756666566625021101106301842386918450311010868849266185384402110306737565600430950021100088159490248287790211010739820523483359402110213053869354030055021102067353365021408230211020679394355818526702110106763763900471060021099113124180259330030211011032892190290542102110109983046806992204021100080563879048507240211001205691324456252002110108960820561361754021100100002057506645850211010881880631130535202110109904094634237562021101095596016135818670211010679864005476475402110113095902030081491021102076468208038283980211011127433742035516502110010963215701475387021102070433477384220690211010682063433396864902110207600243332981994021100090917455162393900211020773775415180247402110109246780619439463021100079204524081660120211010770763244122329702110109665228032986262021101109721789638463490211000972648286116465402",
          "0000000000000000000211011045866272134654302110106724387703623170021101072296216659320810210981009023521187281502110211750233767043535021102086730716565704020211010765103471209085702110207199617308986135021101110247205639361620211001317131850345076902110207987627612760033021101077241035168207000211010763438325047690402110011169138937455106021101121467844633619040211010881380844214033002110112759096741703360021100127038026405868480211011008762630711947902110010392479141801965021102074552364324003370211011045251881841650402110111336135935086022021101118527796583786910211000952098725366257102110207234680309889862021102131313752176114810210991140992874807094702109910511113130576834021099128207942016284460211020745521320942044402110110098751710247420021102083977516469487410211020700946741476319202110110589058254044651021101110424032432173780211010843932474080715002110207558891837675144021100086964373169307150211010718820573626406002110110787227443023887021102117591056231820810211001139049066398832202110009041469527427164021100130875777542017180211020795447623552687802110108102639637765801021102094573543424658850210990919466880789341602110208607105900646261021102082191369168740320211000689483491643964802110110246059827058877021102089792791283687370211010986014161300883502110208076534920200757021103074930675326382210211011097928915523595902110107873839301348011021100113375496268252450211020674020121054519802110108299044761905260021101083924113001168270310990961619534215862802",
          "0000000000000000000311021304358614368628202110013048041555673824041101119026701449383780211001304804155567382402110107044463562109756021101082018389443710240210990795831195997252802110108118293325802905021100105987108551912620211031076534732066248802110110681906732650344021101075185019436392950211010786931991813931302110012184256558754878021100092074503392244720211010733516374482421702110112327619245105901021101080845916316522950211020790861555588217102110108283165032761337021101094953685218741660211021048440792585390102110112757834612070200021101068034546339185520211010837110235235378102110112726303847233541021102124650394083132330211010792770881803785602110108059178064601136021102080870707654041970211001043656070872456103110009961159857265365021101078173514594159300211020761333014058611102110113002196514394359021101098810307426142150211020681927045580952002110009890705435534890041102081639529578104030211000989070543553489002109911106305257022129021101109949641578962160211020692949154097636602110107081074910661048021100090597984347378710211010950592652740607602110109066277546616623021102098259609492925570211020710148800780679602110110487427913359932021102085362570635595020211010825364713449753302110010139968716261084021101130280873083835040211011301747145766066302110108205782200555252021100112434839141746490211011070252874285904402109809484945956647938021102068916290403866960211011239117960573657002109911405719900322133021101097068044217385960211000985810721786512702",
          "0000000000000000000411001232160745739456602110108413424739990183021102110602942425922190211020677988596493173502109911379958311307109021101093296350647230080211001256342435339406302110110216620325857777021099117198357375075770211011078003994935315202110110740734210648356021102106280524557797870211011124769055234485802110112521218234957671021099129497629646965180211020849519674859868004109908820810822556673021102084951967485986800211010762909985447014702110010480761600846596021100122835332081280340211001215088122292702502110111655032931074710021101087554627249390560211021018387902329152402109909577222537144097021101093415084162934110211001039413166038648902110207207332222441236021099072006583056676990211010756186205935199102110110586631331115527021099130477440077134150211020801827431233386302110110396388160070486021102081054168464832760211020791428664656104602110009743397246501093021100111243244519335790211010826494135122454004110207885382749555975021101082649413512245400211020710352974275219402110207491614322732799021100118370894214889090211001270370323100309802110011124109316260312021100129034670468887740211010808779543634754702110108639358600805002021102131392459478241810211010679813286501275902110107832251131453075021101121709354421964940211000993891674347371302110107441301230673498021101094335959165467480211020720088462572684702110007503082636007000021102096699867366914500211010751934184578976204110208785373325951643021101075193418457897620211011034060646329660802",
          "0000000000000000000511001109159163710390102110007452355332532316021101080348409656428950211011191811164833931902110208638790312310555021101099870976075284120211001318174433092724302110011227758414838861021101109720384076833750411021091703112081066202110110972038407683375021100080182628228794380211000990081472029509402110210746585150885150021101105423391523770930210991048495913764316502110108897535953138845021100084730827023287690211001251344874163694502110106881783913746048021100118071525637845300211011281491626304995602110109009673231763249021100128581010420485590211011184709930652576402110207410951030552647021099113634874181028700211010799255390646400802110009736923720423958021101084215810479436950211000766630615701064602110109475187663781663021101091480594354259530211010775480680325028702110009257995739976796021101073095204037176390211000895708271842904702110007266793253099431021101106757822350649120211000883408205780237602110208784013748848939021102069880552206672520210990813663593513723302110110968051861328285021100088860440132867720211010954523462066753502110109605404266879110021099082129369214374340211010811070041686404902110107997296907030994021102079254911059228910211000835325630809261602110207066887713970991021100089047718595624380211010762232014087303602110010789625047784625021102100254746115328360211011291769815145481402110307667432949303171021102067182535438055420211020746872803981486102110207452247562364955021100127087731163560760211010897179562313666302",
          "0000000000000000000611020829380031748774602110211630467745412885021098088289993165790310211010860672575109683604110007809591062586309021101086067257510968360211020813318191267715802110209582392566530975021102067606766248380640211021025248165196230302110111079483919023533021101128003323231228470211011039653400072442302110009077408521013992021100107419092280728700211011165111001152907902110012938860510215153021102092228513488584710211020931492663376564102110211745466746375183021101092134089438095880211020972573574805327802110010290083744402091021100109782512642470820211010982180401828326302110111026096807678133021099118151685345482010210991049850094460687602110111492908623377846021100106219325314626320211020894729712709755002110111748409354657875021101111878697342715350211011057610795999129902110207663580100812353021101085270515024217470211020842794641224019602110013420331339910814021101081536906379439600211001207967725043192402110113123359807659108021101095612955105865970211001062132575952609702110212828132520918409021101074649561442559180211010872205110544518202110111745922218880247021102114828242547025590211010855163106086433302110206939100237620917021101099233829487831720210991327636903255690902110207267684226029177021102081612426414102440211010807731172513738302110109272526743418153021099128594039467707700210991262299413598910902110107331739342330231021101133228423492928290211010696627196703278502110111092440817954512021102079484720469650880211010990572050057246902",
          "0000000000000000000711010936565822092508302110111134686426106112021101079050663337372580211001040522054960732002110107035094057014579021100096581256238002280211010969985891095036102110209528605327910077021101068626241349112210211001258912155821502002110112380870019655136021101115045351167077830211010996200133997878402110010105980800924604021101091957962151405780211020691042805463845802110007332566056416507021101070214591399566480210990946805556260258504110007665570659733004021099094680555626025850211010810220376605119102110007802924704437007021101109626676369996540211011026493652404357302110108349832832067177021101090895949515220820411001330592896405287402110109089594951522082021101100081944555467030210991254514404583673002110106928696414012375031101102056650667165800211000975308612148005802110011037077011842602021102083257790425246740211001104734575722369302110109177697611666932021102076205064081112500211001290904614680758402110108746657307039351021101099915325142052950211010972075395010529002110008071067717251041021101097919561507647910211020961261394363088302109912362097652609877021102075239297540714590211011004366113969315102110012409347907790949021102128201026371054300211020715658460588573002110008237020612962372021101097825798343457550211011297667354122507202110108340222465929483021102068654954185729080211010899093875140495102110206808986816698324021102099780123037975250211001212025743354339502110110543893366059147021101069951566065912070211011009022193303172402",
          "0000000000000000000811000723167134923558704110007378094122661288021100072316713492355870211010752341193904307402109811686541702193555021101083396253372563940211000990841081765030302110207656283418421724021102079049925501129850211020976479696699958302110207175981335700801021101090647278658845720211020752551154650862802110210292062404285179021100123063188543132400211011321264661574004702110109121657546004211021102099849494399488080211001081742542023833402110107768613546736727021101115396276595911220211011088096022784748902109911399724465677119021101115255645371381580211010871030475107742702110108078522942927591021101085151779076668680211011064025185897046002109909697035233436995021102105163237621260630211001062766753424589202109812636717408221222021101089068676520923180211021006627064536830302110106743049707601627021102105105995324144740211021053785335354058202110010617755158612617021098098140555354829360211000800645995484344602110208857280450668451021100109746593444010990210991275675560330749602110007371758040561865021101093597725084940270211010921321682091064902110207572728110290856021102080336684578377580211001009275151008818102110108507513550979562021100086681050549309370211010976743361291823702110008556731965864975021100082307800530676170211030675340996141666602110109541440325715627021102067227555247107240211030800092080917755802110207244642020172914021101087335899014024340211010966802045876764902110011551992062460444021102084641141173193750211010762726811815398102",
          "0528013673538673803810991263273671041934702110109328919157030773021102074846116063202950211011103259635532723102110011784286557860998021099120874180546573450211000920195500757271102110108268920009942158021101108378558213364020211020738567370822079502110108275115530597262021102071446502212519140211010953788020441411802110111668084739935350021101079681818433601100211020734447885130920802110208380888450440826021101113235753228848640211000681853325934200002110111084635151310713021102076859772560561570211010824729413735558402110010994931225377186021102070212455089977910211010802471054588516302110107264280356858068021101085376443110130220210991103516183734201102110011198304250450579021100089796493148131630211011005213521116687802110112018146330997506021100113790992410328350211010846834373055943402110108555939848954960021100111123233327535760211011211841085522703802110008764672722353747021102067118972118629610211020688919711889883002110209466029460701966021101115162722195911270311010762112023972008902110008808082314148491021102078793533097139270211010999699551646665802110108396784424204055021099078302008123001480211010921750554106573802110208196941854796100021101088965607118754070211030727769846588887502110206743215521888825021102068953498279887270211010843032963979557702110107970920203326524021102084862040054934700211010733697946575258702110211330978625648016021100095979319099259180211000865195451926395302110007974524218590458021102068016627039572200210991259241272507664702",
          "0241314135171454101711010770284480945205302110106783520911634463021102120433393327797420210981087513954932135402110111522001353076901021102097561147099624610211020922746530660725002110008611945257115010021102117570281564507960211001246882056538044102109807935740266995107021101090045683607239100211020672210234076202502110008928420235315831021099129105542656915590211010891194721468046202110112781665829506995021101113885062509971830211020952335122492768002110307336638417365188021101097261084417701950211000674799460641569002110008976123235724144021102129335038108527560211011047615103363967002110011110165937121656021102083542587206997750211010899983163161689002110109210338616340431021100104925235470294530211020849207022454528302110108904643131906086021101107838580002070770211020761900765305964102109913384258936386755021099111297527224096720210991313679605752832902110208342730034929940021101093555869084124060211020985811490388275202110012307735436585718021103072564918185004720211020686016475786066902110012390448804874505021102084770141026833780211001210177504321445002110012988290215064838021100070659061320274730211010825845215129337002110208556199319011551021101115230535095731150211020770728241194110302109907718486837414342021102068769488550841030211010885630704868299102110111426807729662353021101069876655075645140211000807109414207166102110013293204307896956021102073186849077612940211010828661360364777503110109580657701144830021101094377307128775030211010752431842759844802",
          "2587509998098860338310991053995006514244502110109780340004107545021102071335839605510620211020922424970869457202110206851769127132063021102076487719066469550211010758713870750629606110208666711903707742041101075871387075062960411020866671190370774202110107587138707506296021100122033166420109550211001238575662926540004110012891701127385149021100123857566292654000211020922116666534690302110207654502857696098021100101754845318506580211010977262894372109602110111939691835055125021101079994603101912760211020731031815423128202110108478328864186935021100081587891569498050211021029568546243092002110308244647633001590021101088143672595482510211020703152782324761502110108586669763808179021101067177289021193740211011079352242265447202109913371267651979041021102099297372096339240211010724932772993458402110011719116022459474021101096754804038030550211011188380362749673402110109550772017283175021102113343926088119730211000924600540418414802110009844825447575232021101129605261460661550211010712123742472625402110109244916000267517021101083567170145257770211011173571101239446302110108162964341635313021100078774418156867160210990796315894275966602109912147773001957495021100069343680625333390211021035575633727792402110009838177821823045021101120668141078874110211011092986885068971702110111105764165542667021100098277305409514750211021170680411726264402110108758589931998995021101104764855481812180211010833831993947560402110207357998706381688021101130525835527536310211010675578835625833403",
          "0316432720426594206411010934090941819332802110109968991565042990021100069440364395181150211000881463201465958602110110483524532149438021100084159061510469140211020678407372125796602110108225060502211270021102119221302532004510211011040175151394696602110112251280809995184021101101837433375365890511010857619813809649302110109072965253774421021101101837433375365890211020904090905674872802110208563961946102254021100080337167432187260211011339130855755756602110110617393664828149021101068307509439383190211021277794804469802102110107447783321574326021101114711627069088720211020706143000344629302110113120747965633824021101070680376595600200211001133910973977319302110107850371126726361021102078550595636494100211010884189520799714602110111895643119207674021099078246341170662250211010903265251128773802110207664852754292535021102076087687494200160411020750674100240017002110207608768749420016021100081110135580635210211010948262285553099702110209185480015590689021100118081935121580580211020948346520130698502110110013882933632965021101099875658070984570211011019666850390329502110013174133118703026021101101630069335074080211010845865204093750802110206728807059816541021100086497746322333400211001039777076096828002110012124681527300883021100130293305447098530211020950091916467694402110109501969239313424021101107798882470949870211011209058420395118802110113075623027784294021101118651336628627600211001153488522615679502110012089719506414433021102091330358126642980211020996377613114461202">>)
NpGammaRow(row) ==
  [p \in 1..Positions(row, 23) |->
     <<  <<0, Cell(row, p, 23, 0, 4) - 1100, Cell(row, p, 23, 4, 9), Cell(row, p, 23, 13, 8)>>,
         Cell(row, p, 23, 21, 2)  >>]
NpGammas ==
  [shape \in DOMAIN NpGammaTable |->
     [seed \in TableSeeds(NpGammaTable[shape]) |->
        NpGammaRow(RowOf(NpGammaTable[shape], seed))]]
NpGammaAt(shape, seed, p) == NpGammas[shape][seed][p]

\* rng.uniform(low, high) = low + (high - low) * u for the double u of one
\* output, here with low = -scale and high = scale; the difference, the
\* product and the sum are rounded one after the other
NpUniform(st, scale) ==
  [value |-> Add(Neg(scale), Mul(Sub(scale, Neg(scale)), FromUnit(NpRandom(st)))),
   st    |-> NpAdvance(st, 1)]
\* rng.normal(scale=scale) = loc + scale * z for loc = 0.0 and the standard
\* normal deviate z
NpNormal(st, scale) ==
  LET z == NpNormalAt(st.seed, st.pos + 1)
  IN [value |-> Add(Zero, Mul(scale, z[1])),
      st    |-> NpAdvance(st, z[2])]
\* rng.gamma(shape) = scale * g for scale = 1.0 and the standard gamma
\* deviate g of that shape
NpGamma(st, shape) ==
  LET g == NpGammaAt(shape, st.seed, st.pos + 1)
  IN [value |-> Mul(FromInt(1), g[1]),
      st    |-> NpAdvance(st, g[2])]

(***************************************************************************)
(* Effect function library: DataGenerator.all_functions.                   *)
(***************************************************************************)
all_functions == <<"linear", "power", "root", "log", "and", "or", "xor">>

\* c ** (1/(n+1)) for c, n in 1..5: the doubles pow returns
RootTable ==
  <<  <<<<0, 0, 67108864, 0>>, <<0, 0, 67108864, 0>>, <<0, 0, 67108864, 0>>, <<0, 0, 67108864, 0>>, <<0, 0, 67108864, 0>>>>,
      <<<<0, 0, 94906265, 41892813>>, <<0, 0, 84551870, 26047115>>, <<0, 0, 79806338, 36812565>>, <<0, 0, 77087841, 45803125>>, <<0, 0, 75327152, 63428288>>>>,
      <<<<0, 0, 116235962, 5786794>>, <<0, 0, 96787730, 17972982>>, <<0, 0, 88320231, 63697254>>, <<0, 0, 83599588, 13908310>>, <<0, 0, 80593514, 53518008>>>>,
      <<<<0, 1, 67108864, 0>>, <<0, 0, 106528681, 20803132>>, <<0, 0, 94906265, 41892813>>, <<0, 0, 88550676, 62477164>>, <<0, 0, 84551870, 26047115>>>>,
      <<<<0, 1, 75029990, 60290216>>, <<0, 0, 114754543, 16696531>>, <<0, 0, 100351157, 66541166>>, <<0, 0, 92592090, 13942988>>, <<0, 0, 87755609, 47911826>>>>  >>
\* math.log(c + 1, n + 1) for c, n in 1..5: the doubles log(c + 1) / log(n + 1)
LogTable ==
  <<  <<<<0, 0, 67108864, 0>>, <<0, 0 - 1, 84681958, 3487037>>, <<0, 0 - 1, 67108864, 0>>, <<0, 0 - 2, 115608858, 17108851>>, <<0, 0 - 2, 103845009, 47975071>>>>,
      <<<<0, 0, 106365032, 60800361>>, <<0, 0, 67108864, 0>>, <<0, 0 - 1, 106365032, 60800361>>, <<0, 0 - 1, 91617852, 36415624>>, <<0, 0 - 1, 82295223, 9566897>>>>,
      <<<<0, 1, 67108864, 0>>, <<0, 0, 84681958, 3487037>>, <<0, 0, 67108864, 0>>, <<0, 0 - 1, 115608858, 17108851>>, <<0, 0 - 1, 103845009, 47975071>>>>,
      <<<<0, 1, 77910978, 24748913>>, <<0, 0, 98312708, 51369187>>, <<0, 0, 77910978, 24748913>>, <<0, 0, 67108864, 0>>, <<0, 0 - 1, 120560322, 52708673>>>>,
      <<<<0, 1, 86736948, 30400180>>, <<0, 0, 109449843, 1743518>>, <<0, 0, 86736948, 30400180>>, <<0, 0, 74711140, 56039457>>, <<0, 0, 67108864, 0>>>>  >>
\* sign * v for sign in {-1, 1} and a double v
Signed(sign, v) == IF sign < 0 THEN Neg(v) ELSE v
\* k * (1 / q) for ints k and q: the int times the float of the quotient
Times(k, q) == Mul(FromInt(k), Divide(1, q))

\* all_functions[roll](x, sign, c, n, i) and the 'constant' identity, for x
\* in {0, 1}: the int or double the lambda returns, an int as its double
FunctionValue(name, x, sign, c, n, i) ==
  CASE name = "linear"   -> Times(sign * c * x, EFFECT_SCALE_RANGE)
    [] name = "power"    -> Times(sign * ((c * x) ^ n),
                                  EFFECT_SCALE_RANGE ^ EFFECT_EXPONENT_RANGE)
    [] name = "root"     -> Signed(sign, IF x = 0 THEN Zero ELSE RootTable[c][n])
    [] name = "log"      -> Signed(sign, IF x = 0 THEN Zero ELSE LogTable[c][n])
    [] name = "and"      -> FromInt(sign * (IF x = 0 THEN x ELSE i))
    [] name = "or"       -> FromInt(sign * (IF x # 0 THEN x ELSE i))
    [] name = "xor"      -> FromInt(sign * (IF x = i THEN 0 ELSE 1))
    [] name = "identity" -> FromInt(x)

\* v * Unit truncated toward zero, for a double v: the value in units of
\* 1 / Unit
Truncate(v) ==
  IF IsZero(v) THEN 0
  ELSE (1 - 2 * v[1])
         * ToInt(ShiftRight(BigMul(Mantissa(v), Digits(Unit)), 52 - v[2]).quot)

\* a double with its value in units of 1 / Unit
WithUnits(v) == [double |-> v, units |-> Truncate(v)]

\* the values of the closures random_interaction builds, computed once: the
\* double, and the value in units of 1 / Unit
FunctionValues ==
  [name \in {all_functions[k] : k \in DOMAIN all_functions} \cup {"identity"} |->
     [sign \in {0 - 1, 1} |->
        [c \in 1 .. EFFECT_SCALE_RANGE |->
           [n \in 1 .. EFFECT_EXPONENT_RANGE |->
              [i \in 0 .. 1 |->
                 [x \in 0 .. 1 |->
                    WithUnits(FunctionValue(name, x, sign, c, n, i))]]]]]]

\* An effect function is a closure; it is kept as the parameters it binds.
\* kind "zero" is lambda x: 0, kind "gen" a closure of random_interaction,
\* kind "user" a user-supplied function given by its values at 0 and 1, whole
\* numbers, in units of 1 / Unit.
ZeroEffect ==
  [kind |-> "zero", fn |-> "zero", sign |-> 1, c |-> 1, n |-> 1, i |-> 0, at0 |-> 0, at1 |-> 0]
GenEffect(fn, sign, c, n, i) ==
  [kind |-> "gen", fn |-> fn, sign |-> sign, c |-> c, n |-> n, i |-> i, at0 |-> 0, at1 |-> 0]
UserEffect(a0, a1) ==
  [kind |-> "user", fn |-> "user", sign |-> 1, c |-> 1, n |-> 1, i |-> 0, at0 |-> a0, at1 |-> a1]

\* effects[col](x), as the double the sums of predict add
Value(f, x) ==
  CASE f.kind = "zero" -> FromInt(0)
    [] f.kind = "gen"  -> FunctionValues[f.fn][f.sign][f.c][f.n][f.i][x].double
    [] f.kind = "user" -> FromInt((IF x = 0 THEN f.at0 ELSE f.at1) \div Unit)

\* effects[col](x) in units of 1 / Unit, as the importances take it
Apply(f, x) ==
  CASE f.kind = "zero" -> 0
    [] f.kind = "gen"  -> FunctionValues[f.fn][f.sign][f.c][f.n][f.i][x].units
    [] f.kind = "user" -> IF x = 0 THEN f.at0 ELSE f.at1

(***************************************************************************)
(* Helpers for Python lists and ranges.                                    *)
(***************************************************************************)
\* range(n)
Range(n) == 0 .. (n - 1)
\* the list [a, a+1, ..., b-1]
RangeSeq(a, b) == [k \in 1 .. Max(0, b - a) |-> a + k - 1]
\* range(n)[start:] and range(n)[:stop] as lists, with Python's slice rule:
\* a negative index counts from the end, and the result is clipped to the range
SliceFrom(n, start) ==
  RangeSeq(IF start < 0 THEN Max(0, n + start) ELSE Min(start, n), n)
SliceTo(n, stop) ==
  RangeSeq(0, IF stop < 0 THEN Max(0, n + stop) ELSE Min(stop, n))
SeqSet(s) == {s[k] : k \in DOMAIN s}
\* the elements of a set of integers in ascending order
RECURSIVE Ascending(_)
Ascending(S) ==
  IF S = {} THEN <<>>
  ELSE LET m == CHOOSE x \in S : \A y \in S : x <= y
       IN <<m>> \o Ascending(S \ {m})

\* the element of a one-element set
TheOnly(S) == CHOOSE x \in S : TRUE

\* A dict whose order of keys matters (interactions) is the sequence of its
\* items <<key, value>> in insertion order.
DictKeys(d) == [k \in DOMAIN d |-> d[k][1]]
KeySet(d) == {d[k][1] : k \in DOMAIN d}
DictGet(d, key) == d[CHOOSE k \in DOMAIN d : d[k][1] = key][2]
\* d[key] = value: an existing key keeps its place, a new key goes last
DictSet(d, key, value) ==
  IF key \in KeySet(d)
  THEN [k \in DOMAIN d |-> IF d[k][1] = key THEN <<key, value>> ELSE d[k]]
  ELSE Append(d, <<key, value>>)

(***************************************************************************)
(* DataGenerator.__init__ and the routines it calls.                       *)
(***************************************************************************)
\* self.functions, chosen by effect_types
Functions(effect_types) ==
  CASE effect_types = "linear"   -> SubSeq(all_functions, 1, 1)
    [] effect_types = "constant" -> <<"identity">>
    [] OTHER                     -> all_functions

\* random.randint(0, sys.maxsize) is _randbelow(2 ** 63): getrandbits(64) takes
\* two outputs, the second being the high half, until the top bit of the high
\* half is 0; the value is the 63-bit number made of the two outputs
RECURSIVE PyRandSeed(_)
PyRandSeed(st) ==
  IF PyGetRandBits(Advance(st, 1), 1) = 1 THEN PyRandSeed(Advance(st, 2))
  ELSE [value |-> <<PyWordAt(st.seed, st.pos + 2)[1], PyWordAt(st.seed, st.pos + 2)[2],
                    PyWordAt(st.seed, st.pos + 1)[1], PyWordAt(st.seed, st.pos + 1)[2]>>,
        st    |-> Advance(st, 2)]

\* self.rng_seed, and the module-level stream after drawing it when rng_seed is None
SeedOf(rng_seed, py) ==
  IF rng_seed = None
  THEN [seed |-> PyRandSeed(py).value, py |-> PyRandSeed(py).st]
  ELSE [seed |-> SeedLimbs(rng_seed), py |-> py]

\* frequencies=None (a frequencies dict has column indices as keys)
NoneDict == (None :> None)
\* frequencies if frequencies is not None else {}
FrequenciesGiven(frequencies) == IF frequencies = NoneDict THEN <<>> ELSE frequencies

\* self.frequencies after the constructor filled in the missing columns,
\* and the number of rng.random() draws it took
Frequencies(num_cols, given, rng) ==
  LET missing == {c \in Range(num_cols) : c \notin DOMAIN given}
  IN [freq  |-> [c \in Range(num_cols) \cup DOMAIN given |->
                   IF c \in DOMAIN given THEN given[c]
                   ELSE NpRandom(NpAdvance(rng, Cardinality({d \in missing : d < c})))],
      draws |-> Cardinality(missing)]

\* the closure random_interaction builds for one interacting variable from
\* the stream st: roll, n, c, i, sign are drawn in this order; and the stream
\* afterwards
RandomEffect(functions, monotonic, st) ==
  LET roll == PyRandBelow(st, Len(functions))
      n    == PyRandInt(roll.st, 1, EFFECT_EXPONENT_RANGE)
      c    == PyRandInt(n.st, 1, EFFECT_SCALE_RANGE)
      i    == PyRandInt(c.st, 0, 1)
      sign == PyRandBelow(i.st, 2)
  IN  [effect |-> GenEffect(functions[roll.value + 1],
                            IF monotonic THEN 1 ELSE <<0 - 1, 1>>[sign.value + 1],
                            c.value, n.value, i.value),
       st     |-> sign.st]

\* the module-level stream as random_interaction uses it: reseeded to rng_seed
RandomInteractionStream(rng_seed, py) == Seeded(rng_seed)

\* the loop of random_interaction from the k-th interacting variable on
RECURSIVE RandomInteractionLoop(_, _, _, _, _, _)
RandomInteractionLoop(list, interacting, k, functions, monotonic, st) ==
  IF k > Len(interacting) THEN [list |-> list, py |-> st]
  ELSE \* the effect and the stream after it, evaluated once
       CHOOSE res \in {RandomInteractionLoop(
                         [list EXCEPT ![interacting[k]] =
                            RandomEffect(functions, monotonic, st).effect],
                         interacting, k + 1, functions, monotonic,
                         RandomEffect(functions, monotonic, st).st)} : TRUE

\* random_interaction: the list of effects, one per column, and the
\* module-level stream afterwards
RandomInteraction(num_cols, interacting, functions, monotonic, rng_seed, py) ==
  RandomInteractionLoop([col \in Range(num_cols) |-> ZeroEffect], interacting, 1,
                        functions, monotonic, RandomInteractionStream(rng_seed, py))

\* generated_effects after the user-supplied effects were written into it
MergeEffects(generated, given) ==
  [col \in DOMAIN generated |-> IF col \in DOMAIN given THEN given[col] ELSE generated[col]]

\* (variant) a variable counts as important only when its effect is nonzero at 1
ImportantVariablesAtOne(effects) ==
  Ascending({v \in DOMAIN effects : Apply(effects[v], 1) # 0})

\* the recomputed self.important_variables
ImportantVariables(effects) ==
  Ascending({v \in DOMAIN effects : Apply(effects[v], 0) # 0 \/ Apply(effects[v], 1) # 0})

\* (variant) the pool is the list of the first num_important columns, as it
\* stood before the re-calculation
InteractionPoolStale(first, important) == first

\* the important_variables generate_interactions reads: self.important_variables
\* as recomputed from the merged effects, not the first num_important columns
InteractionPool(first, important) == important

\* self.interaction_terms before generate_interactions: self.cols[-num_interaction_terms:]
DefaultInteractionTerms(num_cols, num_interaction_terms) ==
  SliceFrom(num_cols, 0 - num_interaction_terms)

\* one correlation drawn from the distribution with scale correlation_scale
\* (rng.uniform(-scale, scale), rng.normal(scale=scale), rng.beta(scale,
\* scale)), and the stream afterwards
RawCorrelation(distribution, scale, rng) ==
  LET entry == CorrelationAt(scale, distribution, rng.seed, rng.pos + 1)
  IN [value |-> Corr(entry[1], <<entry[2], entry[3]>>),
      st    |-> NpAdvance(rng, entry[4])]

\* max(-1, min(1, correlation))
Clip(correlation) ==
  IF Below(ExactOne, correlation.bound) THEN Corr(correlation.sign, ExactOne)
  ELSE correlation

SupportedCorrelation == {"uniform", "normal", "beta"}

\* the loop of generate_interactions from the k-th term on: rng.choice raises
\* on an empty list, and an unsupported distribution raises after the choice
\* of the term was drawn
RECURSIVE GenerateInteractionsLoop(_, _, _, _, _, _, _)
GenerateInteractionsLoop(terms, k, important, distribution, scale, rng, interactions) ==
  IF k > Len(terms) THEN [ok |-> TRUE, interactions |-> interactions, rng |-> rng]
  ELSE IF Len(important) = 0 THEN [ok |-> FALSE, interactions |-> <<>>, rng |-> rng]
  ELSE IF distribution \notin SupportedCorrelation
       THEN [ok |-> FALSE, interactions |-> <<>>,
             rng |-> NpChoiceIndex(rng, Len(important)).st]
  ELSE CHOOSE res \in
         UNION {{GenerateInteractionsLoop(
                   terms, k + 1, important, distribution, scale, correlation.st,
                   DictSet(interactions, terms[k],
                           <<important[mimicking.value + 1], Clip(correlation.value)>>)) :
                 correlation \in {RawCorrelation(distribution, scale, mimicking.st)}} :
                mimicking \in {NpChoiceIndex(rng, Len(important))}} : TRUE

\* generate_interactions: the dict (ok = FALSE when it raised) and self.rng
\* afterwards
GenerateInteractions(terms, important, distribution, scale, rng) ==
  GenerateInteractionsLoop(terms, 1, important, distribution, scale, rng, <<>>)

\* generated_interactions after the manually-supplied interactions were
\* written into it, item by item from the k-th item of the user's dict on
RECURSIVE MergeInteractionsFrom(_, _, _)
MergeInteractionsFrom(generated, given, k) ==
  IF k > Len(given) THEN generated
  ELSE MergeInteractionsFrom(DictSet(generated, given[k][1], given[k][2]), given, k + 1)
MergeInteractions(generated, given) == MergeInteractionsFrom(generated, given, 1)
\* self.interaction_terms: the keys of the merged dict in dict order
MergedTerms(merged) == DictKeys(merged)

\* self.bucket_importances['constant'] and ['scaled']
ConstantImportances(num_cols, important) ==
  [var \in Range(num_cols) |-> IF var \in SeqSet(important) THEN Unit ELSE 0]
ScaledImportances(num_cols, important, effects) ==
  [var \in Range(num_cols) |->
     IF var \in SeqSet(important)
     THEN Max(Abs(Apply(effects[var], 0)), Abs(Apply(effects[var], 1)))
     ELSE 0]

\* (variant) the reserved 'sobol' branch is accepted
SupportedRankingWithSobol == {"constant", "scaled", "sobol"}

SupportedRanking == {"constant", "scaled"}

\* self.importances; the constructor raises for any other ranking
Importances(ranking, num_cols, important, effects) ==
  IF ranking = "constant" THEN ConstantImportances(num_cols, important)
  ELSE ScaledImportances(num_cols, important, effects)

\* the object that does not exist (construction raised, or has not run)
NoGenerator == [exists |-> FALSE]

\* the caller's arguments after the constructor ran: self.frequencies is the
\* caller's dict itself, so the frequencies the constructor fills in for the
\* missing columns are written into the caller's dict (a frequencies argument
\* of None is replaced by a new dict and leaves the arguments alone)
ArgumentsAfter(cfg, py) ==
  IF cfg.frequencies = NoneDict THEN cfg
  ELSE [cfg EXCEPT !.frequencies =
          Frequencies(cfg.num_cols, cfg.frequencies,
                      NpSeeded(SeedOf(cfg.rng_seed, py).seed)).freq]

\* DataGenerator(**cfg) with the module-level stream in state py: whether the
\* constructor returned, the object it built, and the module-level stream after
Construct(cfg, py) ==
  LET s         == SeedOf(cfg.rng_seed, py)
      rng0      == NpSeeded(s.seed)
      fr        == Frequencies(cfg.num_cols, FrequenciesGiven(cfg.frequencies), rng0)
      functions == Functions(cfg.effect_types)
      first     == SliceTo(cfg.num_cols, cfg.num_important)
      ri        == RandomInteraction(cfg.num_cols, first, functions, cfg.monotonic,
                                     s.seed, s.py)
      effects   == MergeEffects(ri.list, cfg.effects)
      important == ImportantVariables(effects)
      terms     == DefaultInteractionTerms(cfg.num_cols, cfg.num_interaction_terms)
      gi        == GenerateInteractions(terms, InteractionPool(first, important),
                                        cfg.correlation_distribution,
                                        correlation_scale, NpAdvance(rng0, fr.draws))
      ok        == gi.ok /\ cfg.importance_ranking \in SupportedRanking
  IN [ok  |-> ok,
      py  |-> ri.py,
      gen |-> IF ~ok THEN NoGenerator
              ELSE [exists                   |-> TRUE,
                    num_cols                 |-> cfg.num_cols,
                    num_rows                 |-> cfg.num_rows,
                    num_important            |-> cfg.num_important,
                    num_interaction_terms    |-> cfg.num_interaction_terms,
                    monotonic                |-> cfg.monotonic,
                    importance_ranking       |-> cfg.importance_ranking,
                    effect_types             |-> cfg.effect_types,
                    correlation_distribution |-> cfg.correlation_distribution,
                    target                   |-> cfg.target,
                    intercept                |-> cfg.intercept,
                    noise_distribution       |-> cfg.noise_distribution,
                    noise_scale              |-> cfg.noise_scale,
                    rng_seed                 |-> s.seed,
                    rng                      |-> gi.rng,
                    frequencies              |-> fr.freq,
                    functions                |-> functions,
                    effects                  |-> effects,
                    important_variables      |-> important,
                    interactions             |-> MergeInteractions(gi.interactions,
                                                                   cfg.interactions),
                    interaction_terms        |-> MergedTerms(
                                                   MergeInteractions(gi.interactions,
                                                                     cfg.interactions)),
                    importances              |-> Importances(cfg.importance_ranking,
                                                   cfg.num_cols, important, effects)]]

(***************************************************************************)
(* DataGenerator.generate_noise, predict and generate_data.                *)
(***************************************************************************)
\* A call of generate_data is the set of the arguments it is given and their
\* values; an argument that is not given is None.
Arg(call, name, stored) == IF name \in call.given THEN call[name] ELSE stored

\* self.cols
Cols(gen) == RangeSeq(0, gen.num_cols)

\* rng.choice([0, 1], p=[1 - freq, freq]) from one rng.random() value u: the
\* index at which u is inserted to the right in the cumulated p, which is
\* [1 - freq, 1]
Bernoulli(u, freq) == IF SumAtLeastOne(u, freq) THEN 1 ELSE 0

\* A DataFrame: its column labels in order, its number of rows and the
\* values of each column.  pd.DataFrame({}) has no column and no row.
NoFrame == [columns |-> <<>>, rows |-> 0, data |-> <<>>]

\* the loop over cols and pd.DataFrame(data): num_rows draws per column, in
\* the order of cols; frequencies[col] raises KeyError at the first label that
\* is no key (ok = FALSE), after the columns before it were drawn
SampleData(cols, num_rows, frequencies, rng) ==
  LET missing == {k \in DOMAIN cols : cols[k] \notin DOMAIN frequencies}
      done    == IF missing = {} THEN Len(cols)
                 ELSE (CHOOSE k \in missing : \A j \in missing : k <= j) - 1
      place(col) == CHOOSE k \in DOMAIN cols : cols[k] = col
  IN [ok  |-> missing = {},
      df  |-> IF missing # {} THEN NoFrame
              ELSE [columns |-> cols,
                    rows    |-> IF Len(cols) = 0 THEN 0 ELSE num_rows,
                    data    |-> [col \in SeqSet(cols) |->
                                   [r \in 1 .. num_rows |->
                                      Bernoulli(NpRandom(NpAdvance(
                                                  rng, (place(col) - 1) * num_rows + r - 1)),
                                                frequencies[col])]]],
      rng |-> NpAdvance(rng, done * num_rows)]

\* row[label]: KeyError (ok = FALSE) when the frame has no such column
RowGet(df, label, r) ==
  [ok    |-> label \in DOMAIN df.data,
   value |-> IF label \in DOMAIN df.data THEN df.data[label][r] ELSE 0]

\* (variant) one draw per cell decides both conditions
MimicCellOneDraw(df, col, mimicking, correlation, r, st) ==
  IF Below(PyRandom(st), correlation.bound) /\ correlation.sign < 0
  THEN [ok    |-> RowGet(df, mimicking, r).ok,
        value |-> 1 - RowGet(df, mimicking, r).value, draws |-> 1]
  ELSE IF Below(PyRandom(st), correlation.bound) /\ correlation.sign > 0
       THEN [ok    |-> RowGet(df, mimicking, r).ok,
             value |-> RowGet(df, mimicking, r).value, draws |-> 1]
       ELSE [ok    |-> RowGet(df, col, r).ok,
             value |-> RowGet(df, col, r).value, draws |-> 1]

\* the lambda of the interaction pass on one row: the value of the cell and
\* the number of random.uniform(0, 1) draws it took; only the row[...] of the
\* branch taken is evaluated
MimicCell(df, col, mimicking, correlation, r, st) ==
  IF Below(PyRandom(st), correlation.bound) /\ correlation.sign < 0
  THEN [ok    |-> RowGet(df, mimicking, r).ok,
        value |-> 1 - RowGet(df, mimicking, r).value, draws |-> 1]
  ELSE IF Below(PyRandom(PyAfterRandom(st, 1)), correlation.bound) /\ correlation.sign > 0
       THEN [ok    |-> RowGet(df, mimicking, r).ok,
             value |-> RowGet(df, mimicking, r).value, draws |-> 2]
       ELSE [ok    |-> RowGet(df, col, r).ok,
             value |-> RowGet(df, col, r).value, draws |-> 2]

\* df.apply(..., axis=1) for one interaction column, row by row from row r
\* on; a KeyError in a row ends it, the draws of that row taken
RECURSIVE MimicColumn(_, _, _, _, _, _, _)
MimicColumn(df, col, mimicking, correlation, r, done, st) ==
  IF r > df.rows THEN [ok |-> TRUE, column |-> done, st |-> st]
  ELSE LET cell == MimicCell(df, col, mimicking, correlation, r, st)
       IN IF ~cell.ok
          THEN [ok |-> FALSE, column |-> done, st |-> PyAfterRandom(st, cell.draws)]
          ELSE MimicColumn(df, col, mimicking, correlation, r + 1,
                           Append(done, cell.value), PyAfterRandom(st, cell.draws))

\* df[label] = column: a column of that label is replaced in place, a new
\* label is appended
SetColumn(df, label, column) ==
  [columns |-> IF label \in SeqSet(df.columns) THEN df.columns
               ELSE Append(df.columns, label),
   rows    |-> df.rows,
   data    |-> [l \in DOMAIN df.data \cup {label} |->
                  IF l = label THEN column ELSE df.data[l]]]

\* the loop over interactions.keys(), from the k-th key on
RECURSIVE InteractionPass(_, _, _, _, _)
InteractionPass(df, keys, interactions, k, st) ==
  IF k > Len(keys) THEN [ok |-> TRUE, df |-> df, st |-> st]
  ELSE LET col == keys[k]
           res == MimicColumn(df, col, DictGet(interactions, col)[1],
                              DictGet(interactions, col)[2], 1, <<>>, st)
       IN IF ~res.ok THEN [ok |-> FALSE, df |-> df, st |-> res.st]
          ELSE InteractionPass(SetColumn(df, col, res.column), keys, interactions,
                               k + 1, res.st)

\* the sequence s without its entries equal to x
Without(s, x) == SelectSeq(s, LAMBDA l : l # x)

\* for one row, sum(...) over the columns read, in the order of X.columns, of
\* the column's effect applied to the value: the sum starts from the int 0
\* and adds one term after the other, each sum rounded
RECURSIVE SumEffects(_, _, _, _)
SumEffects(effects, X, cols, r) ==
  IF cols = <<>> THEN FromInt(0)
  ELSE Add(SumEffects(effects, X, SubSeq(cols, 1, Len(cols) - 1), r),
           Value(effects[cols[Len(cols)]], X[cols[Len(cols)]][r]))
\* predict(X, effects, target): the columns other than target are read;
\* effects[col] raises IndexError (ok = FALSE) for a label the list of
\* effects has no entry for
Predict(X, effects, target) ==
  LET read == Without(X.columns, target)
  IN IF \E l \in SeqSet(read) : l \notin DOMAIN effects
     THEN [ok |-> FALSE, sum |-> <<>>]
     ELSE [ok  |-> TRUE,
           sum |-> [r \in 1 .. X.rows |-> SumEffects(effects, X.data, read, r)]]

\* np.max(np.abs(v)) over the first k rows
RECURSIVE MaxAbs(_, _)
MaxAbs(sum, k) ==
  IF k = 0 THEN Zero
  ELSE LET b == MaxAbs(sum, k - 1)
       IN IF FabsLess(b, sum[k]) THEN Fabs(sum[k]) ELSE b
\* noise_scale * np.max(np.abs(important_sum)), noise_scale a whole number
NoiseScale(noise_scale, sum) == Mul(FromInt(noise_scale), MaxAbs(sum, Len(sum)))

SupportedNoise == {"uniform", "normal", "gamma"}

\* one noise sample of the distribution, and the stream afterwards
NoiseSample(distribution, scale, rng) ==
  CASE distribution = "uniform" -> NpUniform(rng, scale)
    [] distribution = "normal"  -> NpNormal(rng, scale)
    [] distribution = "gamma"   -> NpGamma(rng, scale)

\* size samples drawn one after the other, from the r-th on
RECURSIVE NoiseSamples(_, _, _, _, _, _)
NoiseSamples(size, r, distribution, scale, rng, noise) ==
  IF r > size THEN [noise |-> noise, rng |-> rng]
  ELSE CHOOSE res \in
         {NoiseSamples(size, r + 1, distribution, scale, one.st,
                       Append(noise, one.value)) :
          one \in {NoiseSample(distribution, scale, rng)}} : TRUE

\* (variant) an unsupported distribution yields zeros instead of raising
GenerateNoiseNoRaise(size, distribution, scale, rng) ==
  IF ~IsZero(scale) /\ distribution \in {"uniform", "normal", "gamma"}
  THEN TheOnly({[ok |-> TRUE, drawn |-> TRUE, noise |-> s.noise, rng |-> s.rng] :
                  s \in {NoiseSamples(size, 1, distribution, scale, rng, <<>>)}})
  ELSE [ok |-> TRUE, drawn |-> FALSE, noise |-> [r \in 1 .. size |-> Zero], rng |-> rng]

\* generate_noise(size, distribution, scale): the samples, whether they were
\* drawn (np.zeros(size) otherwise), and self.rng afterwards
GenerateNoise(size, distribution, scale, rng) ==
  IF IsZero(scale)
  THEN [ok |-> TRUE, drawn |-> FALSE, noise |-> [r \in 1 .. size |-> Zero], rng |-> rng]
  ELSE IF distribution \in SupportedNoise
       THEN TheOnly({[ok |-> TRUE, drawn |-> TRUE, noise |-> s.noise, rng |-> s.rng] :
                       s \in {NoiseSamples(size, 1, distribution, scale, rng, <<>>)}})
       ELSE [ok |-> FALSE, drawn |-> FALSE, noise |-> <<>>, rng |-> rng]

\* the effect list predict is given inside generate_data
PredictEffects(gen, call) == gen.effects

\* (variant) the intercept is left out
TargetColumnNoIntercept(important_sum, noise, intercept) ==
  [r \in DOMAIN noise |-> Add(important_sum[r], noise[r])]

\* important_sum + noise + intercept, added in that order
TargetColumn(important_sum, noise, intercept) ==
  [r \in DOMAIN noise |-> Add(Add(important_sum[r], noise[r]), FromInt(intercept))]

\* the keys of an interactions dict in iteration order
InteractionKeys(gen, call) == DictKeys(Arg(call, "interactions", gen.interactions))

\* the table returned, df after df[target] = column: its column labels in
\* order and the values of each
NoTable == [columns |-> <<>>, data |-> <<>>]
Table(df, target, column) ==
  [columns |-> SetColumn(df, target, column).columns,
   data    |-> SetColumn(df, target, column).data]

\* What a call of generate_data leaves behind: the stage it got to ("sample",
\* "pass", "predict" or "noise" when that stage raised, "return" when the
\* call returned), the frame as sampled and as the interaction pass left it
\* (its values and its column labels in order), the signal, the noise, the
\* table, and the two streams.
Outcome(stage, sampled, X, pred, nz, table, rng, py) ==
  [ok            |-> stage = "return",
   stage         |-> stage,
   sampled       |-> sampled.data,
   X             |-> X.data,
   labels        |-> X.columns,
   important_sum |-> pred.sum,
   noise         |-> nz.noise,
   drawn         |-> nz.drawn,
   table         |-> table,
   rng           |-> rng,
   py            |-> py]
NoNoise == [ok |-> FALSE, drawn |-> FALSE, noise |-> <<>>]
NoSignal == [ok |-> FALSE, sum |-> <<>>]

\* generate_data from df[target] = ... on
FromNoise(gen, call, data, pass, pred, nz) ==
  Outcome(IF nz.ok THEN "return" ELSE "noise", data.df, pass.df, pred, nz,
          IF nz.ok
          THEN Table(pass.df, Arg(call, "target", gen.target),
                     TargetColumn(pred.sum, nz.noise,
                                  Arg(call, "intercept", gen.intercept)))
          ELSE NoTable,
          nz.rng, pass.st)

\* generate_data from the call of generate_noise on: size is df.shape[0] and
\* scale is noise_scale * max|signal|
FromPredict(gen, call, data, pass, pred) ==
  IF ~pred.ok
  THEN Outcome("predict", data.df, pass.df, NoSignal, NoNoise, NoTable, data.rng, pass.st)
  ELSE TheOnly(
         {FromNoise(gen, call, data, pass, pred, nz) :
          nz \in {GenerateNoise(pass.df.rows,
                                Arg(call, "noise_distribution", gen.noise_distribution),
                                NoiseScale(Arg(call, "noise_scale", gen.noise_scale),
                                           pred.sum),
                                data.rng)}})

\* generate_data from self.predict(df) on: predict is given the frame only
FromPass(gen, call, data, pass) ==
  IF ~pass.ok
  THEN Outcome("pass", data.df, pass.df, NoSignal, NoNoise, NoTable, data.rng, pass.st)
  ELSE TheOnly(
         {FromPredict(gen, call, data, pass, pred) :
          pred \in {Predict(pass.df, PredictEffects(gen, call), gen.target)}})

\* generate_data from random.seed(self.rng_seed) on
FromSample(gen, call, data, py) ==
  IF ~data.ok
  THEN Outcome("sample", NoFrame, NoFrame, NoSignal, NoNoise, NoTable, data.rng, py)
  ELSE TheOnly(
         {FromPass(gen, call, data, pass) :
          pass \in {InteractionPass(data.df, InteractionKeys(gen, call),
                                    Arg(call, "interactions", gen.interactions), 1,
                                    Seeded(gen.rng_seed))}})

\* gen.generate_data(**call) with the module-level stream in state py (every
\* intermediate value is bound once: the sampled data, the interaction pass,
\* the signal, the noise)
GenerateData(gen, call, py) ==
  TheOnly(
    {FromSample(gen, call, data, py) :
     data \in {SampleData(Arg(call, "cols", Cols(gen)),
                          Arg(call, "num_rows", gen.num_rows),
                          Arg(call, "frequencies", gen.frequencies), gen.rng)}})

\* (variant) the effective num_rows is written back to self
AfterGenerateDataStoring(gen, call, res) ==
  [gen EXCEPT !.rng = res.rng, !.num_rows = Arg(call, "num_rows", gen.num_rows)]

\* the fields of self that generate_data leaves behind: only self.rng moved
AfterGenerateData(gen, call, res) == [gen EXCEPT !.rng = res.rng]

(***************************************************************************)
(* The inputs: constructor arguments and generate_data arguments.          *)
(***************************************************************************)
\* user-supplied effect functions: x -> x, x -> 0, x -> 2x - 2
UserFunctions == {UserEffect(0, Unit), UserEffect(0, 0), UserEffect(0 - 2 * Unit, 0)}

\* the constructor's arguments when none is given, with the table's size at
\* the bounds and the seed fixed
BaseConfig ==
  [num_cols                 |-> MaxCols,
   num_rows                 |-> MaxRows,
   num_important            |-> 1,
   num_interaction_terms    |-> 0,
   interactions             |-> <<>>,
   monotonic                |-> FALSE,
   importance_ranking       |-> "scaled",
   effects                  |-> <<>>,
   effect_types             |-> "all",
   frequencies              |-> NoneDict,
   correlation_distribution |-> "normal",
   target                   |-> TargetStr,
   intercept                |-> 0,
   noise_distribution       |-> "normal",
   noise_scale              |-> 0,
   rng_seed                 |-> 0]

ConfigFields == DOMAIN BaseConfig

\* the values an argument of the constructor is given; a user-supplied
\* correlation is 0.5 or -0.5, a user-supplied frequency 1.0 or 0.5
ConfigValues(f) ==
  CASE f = "num_cols"                 -> 0 .. MaxCols
    [] f = "num_rows"                 -> 1 .. MaxRows
    [] f = "num_important"            -> 0 .. MaxCols
    [] f = "num_interaction_terms"    -> 0 .. MaxCols
    [] f = "interactions"             ->
         {<<>>, << <<1, <<0, Corr(1, ExactHalf)>>>>, <<0, <<1, Corr(0 - 1, ExactHalf)>>>> >>}
           \cup {<< <<c, <<m, Corr(sign, ExactHalf)>>>> >> :
                   c \in Range(MaxCols), m \in Range(MaxCols), sign \in {0 - 1, 1}}
    [] f = "monotonic"                -> BOOLEAN
    [] f = "importance_ranking"       -> {"scaled", "constant", "sobol"}
    [] f = "effects"                  ->
         {<<>>} \cup {(c :> fn) : c \in Range(MaxCols), fn \in UserFunctions}
    [] f = "effect_types"             -> {"all", "linear", "constant"}
    [] f = "frequencies"              -> {NoneDict, <<>>, (0 :> ExactOne), (0 :> ExactHalf)}
    [] f = "correlation_distribution" -> {"normal", "uniform", "beta", "invalid"}
    [] f = "target"                   -> {TargetStr, 0}
    [] f = "intercept"                -> {0, 1}
    [] f = "noise_distribution"       -> {"normal", "uniform", "gamma", "invalid"}
    [] f = "noise_scale"              -> {0, 1}
    [] f = "rng_seed"                 -> {None} \cup (0 .. MaxSeed)

\* arguments whose column indices are indices of existing columns (the
\* counts num_important and num_interaction_terms may exceed num_cols: the
\* slices of self.cols clip)
WellFormed(cfg) ==
  /\ DOMAIN cfg.effects \subseteq Range(cfg.num_cols)
  /\ DOMAIN FrequenciesGiven(cfg.frequencies) \subseteq Range(cfg.num_cols)
  /\ \A c \in KeySet(cfg.interactions) :
        c \in Range(cfg.num_cols) /\ DictGet(cfg.interactions, c)[1] \in Range(cfg.num_cols)

\* the configurations that differ from one of S in at most one argument
Vary(S) ==
  UNION {UNION {{[cfg EXCEPT ![f] = v] : v \in ConfigValues(f)} : f \in ConfigFields} :
         cfg \in S}

\* the well-formed configurations in which at most two arguments differ from
\* BaseConfig, and those that differ from one of them in at most one more
\* argument; the argument n is the number of changes
ConfigsWithin(n) ==
  IF n = 2 THEN {cfg \in Vary(Vary({BaseConfig})) : WellFormed(cfg)}
  ELSE IF n = 3
       THEN {cfg \in Vary({c \in Vary(Vary({BaseConfig})) : WellFormed(c)}) :
               WellFormed(cfg)}
       ELSE {cfg \in Vary({BaseConfig}) : WellFormed(cfg)}

\* generate_data() with no argument
NoArgs ==
  [given              |-> {},
   num_rows           |-> None,
   cols               |-> <<>>,
   frequencies        |-> <<>>,
   effects            |-> <<>>,
   interactions       |-> <<>>,
   target             |-> None,
   intercept          |-> None,
   noise_scale        |-> None,
   noise_distribution |-> "None"]

Give(name, value) == [[NoArgs EXCEPT !.given = {name}] EXCEPT ![name] = value]

\* the calls of generate_data on a generator of num_cols columns: no
\* argument, or one override.  cols is a list of different labels, one of the
\* columns, all of them in another order, or a label that is no column; it
\* is never the empty list when there are interactions (df.apply would run
\* on a frame without rows).  frequencies is a dict for every column, or for
\* column 0 only.  interactions is a dict over columns, or over the label
\* num_cols, which is no column.
Calls(num_cols) ==
  {NoArgs}
    \cup {Give("num_rows", n) : n \in 1 .. MaxRows}
    \cup {Give("cols", c) :
            c \in {<<0>>, <<num_cols>>} \cup (IF num_cols < 2 THEN {} ELSE {<<1, 0>>})}
    \cup {Give("frequencies", f) :
            f \in {[c \in Range(num_cols) |-> ExactOne], (0 :> ExactHalf)}}
    \cup {Give("effects", [c \in Range(num_cols) |-> fn]) :
            fn \in {UserEffect(0, Unit), UserEffect(Unit, 0)}}
    \cup {Give("interactions", d) :
            d \in {<<>>}
                   \cup (IF num_cols < 1 THEN {}
                         ELSE {<< <<num_cols - 1, <<0, Corr(1, ExactOne)>>>> >>,
                               << <<num_cols, <<0, Corr(1, ExactOne)>>>> >>})
                   \cup (IF num_cols < 2 THEN {}
                         ELSE {<< <<1, <<0, Corr(1, ExactHalf)>>>>,
                                  <<0, <<1, Corr(0 - 1, ExactHalf)>>>> >>})}
    \cup {Give("target", t) : t \in {TargetStr, 0}}
    \cup {Give("intercept", b) : b \in {0, 1}}
    \cup {Give("noise_scale", k) : k \in {0, 1}}
    \cup {Give("noise_distribution", d) : d \in {"uniform", "normal", "gamma", "invalid"}}

(***************************************************************************)
(* The scoring harness: src/variable_importance/variable_importance_scoring.py *)
(***************************************************************************)
\* the names cross_validation_scores computes a score for
ScoreNames ==
  {"model_importance", "cmr_importance", "loco_importance", "mr_importance",
   "shap_importance"}
\* the importance algorithms that are run on the fitted model
Algorithms == ScoreNames \ {"model_importance"}

\* A score is a number, None or nan.  A rank correlation r is kept exactly as
\* r = num / sqrt(den2); the number 0 is ZeroScore.
Number(num, den2) == [kind |-> "number", num |-> num, den2 |-> den2]
ZeroScore == Number(0, 1)
NoneScore == [kind |-> "None", num |-> 0, den2 |-> 1]
NanScore == [kind |-> "nan", num |-> 0, den2 |-> 1]

RECURSIVE SeqSum(_)
SeqSum(s) == IF s = <<>> THEN 0 ELSE Head(s) + SeqSum(Tail(s))

\* twice the average rank of x[i] among the values of x (ties share a rank)
Rank2(x, i) ==
  2 * Cardinality({j \in DOMAIN x : x[j] < x[i]})
    + Cardinality({j \in DOMAIN x : x[j] = x[i]}) + 1
Ranks2(x) == [i \in DOMAIN x |-> Rank2(x, i)]
IsConstant(x) == \A i, j \in DOMAIN x : x[i] = x[j]

\* scipy.stats.spearmanr(a, b) under the warnings filter in force: sequences
\* of different lengths raise; a constant sequence gives a warning, which is
\* raised as an exception when the filter is "error" and otherwise leaves the
\* result nan; else the Pearson correlation of the ranks
Spearmanr(a, b, filter) ==
  IF Len(a) # Len(b) THEN [raised |-> TRUE, value |-> NanScore]
  ELSE IF IsConstant(a) \/ IsConstant(b)
       THEN [raised |-> filter = "error", value |-> NanScore]
       ELSE LET n  == Len(a)
                ra == Ranks2(a)
                rb == Ranks2(b)
                sa == SeqSum(ra)
                sb == SeqSum(rb)
            IN [raised |-> FALSE,
                value  |-> Number(n * SeqSum([i \in 1 .. n |-> ra[i] * rb[i]]) - sa * sb,
                                  (n * SeqSum([i \in 1 .. n |-> ra[i] * ra[i]]) - sa * sa)
                                    * (n * SeqSum([i \in 1 .. n |-> rb[i] * rb[i]]) - sb * sb))]

\* importance_score(pred_importances, true_importances): the filter is set to
\* "error", then the correlation is computed inside try/except
ImportanceScore(pred_importances, true_importances) ==
  LET r == Spearmanr(true_importances, pred_importances, "error")
  IN [raised  |-> FALSE,
      value   |-> IF r.raised THEN ZeroScore ELSE r.value,
      printed |-> r.raised,
      filter  |-> "error"]

\* importance_score_estimator(estimator, X, y, true_importances, importance_attr):
\* the filter is set to "error" and estimator.fit runs before the try; getattr
\* and the correlation are inside it
ImportanceScoreEstimator(estimator, fit_ok, true_importances, importance_attr) ==
  IF ~fit_ok
  THEN [raised |-> TRUE, value |-> NoneScore, printed |-> FALSE, filter |-> "error"]
  ELSE [raised  |-> FALSE,
        value   |-> IF estimator.attr_name # importance_attr THEN ZeroScore
                    ELSE ImportanceScore(estimator.importances, true_importances).value,
        printed |-> FALSE,
        filter  |-> "error"]

\* a fitted model: the one importance attribute it has, the importances it
\* and the importance algorithms report, and the algorithms that raise on it
HasAttr(model, importance_attr) == model.attr_name = importance_attr

\* model_importance_score(model, true_importances, importance_attr): getattr
\* is evaluated before importance_score is entered
ModelImportanceScore(model, true_importances, importance_attr, filter) ==
  IF HasAttr(model, importance_attr)
  THEN ImportanceScore(model.importances, true_importances)
  ELSE [raised |-> TRUE, value |-> NoneScore, printed |-> FALSE, filter |-> filter]

\* the body of the scoring loop for one name
ScoreOne(name, model, true_importances, importance_attr, filter) ==
  IF name = "model_importance"
  THEN ModelImportanceScore(model, true_importances, importance_attr, filter)
  ELSE IF name \in model.raising
       THEN [raised |-> TRUE, value |-> NoneScore, printed |-> FALSE, filter |-> filter]
       ELSE ImportanceScore(model.importances, true_importances)

\* for name in score_function_names, from the k-th name on; a name that is
\* none of the five is skipped
RECURSIVE ScoringLoop(_, _, _, _, _, _, _)
ScoringLoop(names, k, model, true_importances, importance_attr, scores, filter) ==
  IF k > Len(names) THEN [raised |-> FALSE, scores |-> scores, filter |-> filter]
  ELSE IF names[k] \notin ScoreNames
       THEN ScoringLoop(names, k + 1, model, true_importances, importance_attr,
                        scores, filter)
       ELSE LET one == ScoreOne(names[k], model, true_importances, importance_attr,
                                filter)
            IN IF one.raised
               THEN [raised |-> TRUE, scores |-> scores, filter |-> one.filter]
               ELSE ScoringLoop(names, k + 1, model, true_importances, importance_attr,
                                [n \in DOMAIN scores \cup {names[k]} |->
                                   IF n = names[k] THEN one.value ELSE scores[n]],
                                one.filter)

\* cross_validation_scores(cv, X, y, importance_attr, true_importances,
\* score_function_names): cv is the outcome of cv.fit and its best estimator
CrossValidationScores(cv, true_importances, importance_attr, names, filter) ==
  IF ~cv.fit_ok
  THEN [raised |-> FALSE, fitted |-> FALSE,
        scores |-> [n \in {names[k] : k \in DOMAIN names} |-> NoneScore],
        filter |-> filter]
  ELSE LET loop == ScoringLoop(names, 1, cv.best_estimator_, true_importances,
                               importance_attr, <<>>, filter)
       IN [raised |-> loop.raised, fitted |-> TRUE, scores |-> loop.scores,
           filter |-> loop.filter]

\* the inputs of the scoring harness
\* importances a model or an algorithm reports: one per feature, or one short
PredImportances ==
  UNION {[1 .. n -> 0 .. 1] : n \in (MaxFeatures - 1) .. MaxFeatures}
\* ground-truth importances: one per feature
TrueImportances == [1 .. MaxFeatures -> 0 .. 1]
ImportanceAttrs == {"feature_importances_", "coef_"}
Models ==
  {[attr_name |-> a, importances |-> p, raising |-> R] :
     a \in ImportanceAttrs, p \in PredImportances,
     R \in {{}} \cup {{alg} : alg \in Algorithms}}
CrossValidators == [fit_ok : BOOLEAN, best_estimator_ : Models]
\* lists of at most MaxNames different score names
ScoreFunctionNames ==
  {names \in UNION {[1 .. n -> ScoreNames] : n \in 0 .. MaxNames} :
     \A i, j \in DOMAIN names : names[i] = names[j] => i = j}
NoModel == [attr_name |-> "feature_importances_", importances |-> <<>>, raising |-> {}]
NoScoring ==
  [op |-> "none", pred_importances |-> <<>>, true_importances |-> <<>>,
   importance_attr |-> "feature_importances_", model |-> NoModel, fit_ok |-> FALSE,
   names |-> <<>>, raised |-> FALSE, value |-> NoneScore, scores |-> <<>>]

(***************************************************************************)
(* The state machine.                                                      *)
(***************************************************************************)
VARIABLES
  config,      \* the constructor arguments of this run
  status,      \* per instance: "none", "ok" (constructed) or "error" (raised)
  gens,        \* per instance: the DataGenerator object
  pyrandom,    \* the module-level `random` stream
  last,        \* the last generate_data call: its arguments and what it returned
  calls,       \* number of generate_data calls so far
  otherDraws,  \* draws other code took from that stream since the last construction
  warnfilter,  \* the process-wide warnings filter: "default" or "error"
  scored       \* the last call of the scoring harness: arguments and outcome

vars == <<config, status, gens, pyrandom, last, calls, otherDraws, warnfilter, scored>>

Instances == 1 .. 2

NoCall == [inst |-> 0, call |-> NoArgs, before |-> NoGenerator, ok |-> FALSE,
           stage |-> "none", sampled |-> <<>>, py |-> Seeded(SeedLimbs(0)), X |-> <<>>,
           labels |-> <<>>, important_sum |-> <<>>, noise |-> <<>>, drawn |-> FALSE,
           table |-> NoTable]

\* a run with one generator that is constructed and then asked for data:
\* at most one argument of the constructor differs from BaseConfig (each
\* call then varies one argument of generate_data)

Init ==
  /\ config \in ConfigsWithin(1)
  /\ status = [k \in Instances |-> IF k = 1 THEN "none" ELSE "unused"]
  /\ gens = [k \in Instances |-> NoGenerator]
  /\ pyrandom = Seeded(SeedLimbs(MaxSeed + 1))
  /\ last = NoCall
  /\ calls = 0
  /\ otherDraws = 0
  /\ warnfilter = "default"
  /\ scored = NoScoring

\* a run with two generators constructed from the same arguments
InitNew ==
  /\ config \in ConfigsWithin(3)
  /\ status = [k \in Instances |-> "none"]
  /\ gens = [k \in Instances |-> NoGenerator]
  /\ pyrandom = Seeded(SeedLimbs(MaxSeed + 1))
  /\ last = NoCall
  /\ calls = 0
  /\ otherDraws = 0
  /\ warnfilter = "default"
  /\ scored = NoScoring

\* g = DataGenerator(**config): the same arguments, the same dict objects
New(k) ==
  /\ status[k] = "none"
  /\ \E c \in {Construct(config, pyrandom)} :
        /\ status' = [status EXCEPT ![k] = IF c.ok THEN "ok" ELSE "error"]
        /\ gens' = [gens EXCEPT ![k] = c.gen]
        /\ pyrandom' = c.py
  /\ config' = ArgumentsAfter(config, pyrandom)
  /\ otherDraws' = 0
  /\ UNCHANGED <<last, calls, warnfilter, scored>>

\* other code draws from the module-level stream, random.random(), while a
\* generator is still to be constructed: the constructor alone reads the
\* stream as it finds it, random_interaction and generate_data reseed it first
OtherDraw ==
  /\ \E k \in Instances : status[k] = "none"
  /\ otherDraws < MaxOtherDraws
  /\ otherDraws' = otherDraws + 1
  /\ pyrandom' = PyAfterRandom(pyrandom, 1)
  /\ UNCHANGED <<config, status, gens, last, calls, warnfilter, scored>>

\* g.generate_data(**call); a call that raises leaves the streams where the
\* exception found them
CallGenerateData(k, call) ==
  /\ status[k] = "ok"
  /\ calls < MaxCalls
  /\ \E res \in {GenerateData(gens[k], call, pyrandom)} :
        /\ gens' = [gens EXCEPT ![k] = AfterGenerateData(gens[k], call, res)]
        /\ pyrandom' = res.py
        /\ last' = [inst |-> k, call |-> call, before |-> gens[k], ok |-> res.ok,
                    stage |-> res.stage, sampled |-> res.sampled, py |-> res.py,
                    X |-> res.X, labels |-> res.labels,
                    important_sum |-> res.important_sum,
                    noise |-> res.noise, drawn |-> res.drawn, table |-> res.table]
  /\ calls' = calls + 1
  /\ UNCHANGED <<config, status, otherDraws, warnfilter, scored>>

\* g.generate_noise(distribution=distribution, scale=scale) called directly,
\* size being self.num_rows: self.rng moves
CallGenerateNoise(k, distribution, scale) ==
  /\ status[k] = "ok"
  /\ calls < MaxCalls
  /\ gens' = [gens EXCEPT ![k].rng =
                GenerateNoise(gens[k].num_rows, distribution, FromInt(scale), gens[k].rng).rng]
  /\ calls' = calls + 1
  /\ UNCHANGED <<config, status, pyrandom, last, otherDraws, warnfilter, scored>>

\* g.generate_interactions(distribution=distribution) called directly, on the
\* stored interaction_terms and important_variables: the dict is returned,
\* not stored, and self.rng moves
CallGenerateInteractions(k, distribution) ==
  /\ status[k] = "ok"
  /\ calls < MaxCalls
  /\ gens' = [gens EXCEPT ![k].rng =
                GenerateInteractions(gens[k].interaction_terms,
                                     gens[k].important_variables, distribution,
                                     correlation_scale, gens[k].rng).rng]
  /\ calls' = calls + 1
  /\ UNCHANGED <<config, status, pyrandom, last, otherDraws, warnfilter, scored>>

\* g.random_interaction(g.important_variables) called directly: the list is
\* returned, not stored, and the module-level stream is reseeded and moves
CallRandomInteraction(k) ==
  /\ status[k] = "ok"
  /\ calls < MaxCalls
  /\ pyrandom' = RandomInteraction(gens[k].num_cols, gens[k].important_variables,
                                   gens[k].functions, gens[k].monotonic,
                                   gens[k].rng_seed, pyrandom).py
  /\ calls' = calls + 1
  /\ UNCHANGED <<config, status, gens, last, otherDraws, warnfilter, scored>>

Next ==
  \/ \E k \in Instances : New(k)
  \/ OtherDraw
  \/ \E k \in Instances : \E call \in Calls(config.num_cols) : CallGenerateData(k, call)
  \/ \E k \in Instances : \E d \in {"normal", "invalid"} : \E scale \in {0, 1} :
        CallGenerateNoise(k, d, scale)
  \/ \E k \in Instances : \E d \in {config.correlation_distribution, "invalid"} :
        CallGenerateInteractions(k, d)
  \/ \E k \in Instances : CallRandomInteraction(k)

Spec == Init /\ [][Next]_vars

NextNew ==
  \/ \E k \in Instances : New(k)
  \/ OtherDraw

SpecNew == InitNew /\ [][NextNew]_vars

\* a run of the scoring harness on one fitted cross-validator, one ground
\* truth and one list of score names; no generator is constructed
InitScore ==
  /\ config = BaseConfig
  /\ status = [k \in Instances |-> "unused"]
  /\ gens = [k \in Instances |-> NoGenerator]
  /\ pyrandom = Seeded(SeedLimbs(MaxSeed + 1))
  /\ last = NoCall
  /\ calls = 0
  /\ otherDraws = 0
  /\ warnfilter = "default"
  /\ \E cv \in CrossValidators, t \in TrueImportances, names \in ScoreFunctionNames :
        scored = [NoScoring EXCEPT !.model = cv.best_estimator_, !.fit_ok = cv.fit_ok,
                                   !.true_importances = t, !.names = names]

\* the arguments of the run, with no call made
Subject ==
  [NoScoring EXCEPT !.model = scored.model, !.fit_ok = scored.fit_ok,
                    !.true_importances = scored.true_importances,
                    !.names = scored.names]

\* importance_score(model importances, true_importances=true_importances)
CallImportanceScore ==
  /\ \E res \in {ImportanceScore(scored.model.importances, scored.true_importances)} :
        /\ warnfilter' = res.filter
        /\ scored' = [Subject EXCEPT !.op = "importance_score",
                        !.pred_importances = scored.model.importances,
                        !.raised = res.raised, !.value = res.value]
  /\ UNCHANGED <<config, status, gens, pyrandom, last, calls, otherDraws>>

\* model_importance_score(model, true_importances, importance_attr)
CallModelImportanceScore(importance_attr) ==
  /\ \E res \in {ModelImportanceScore(scored.model, scored.true_importances,
                                      importance_attr, warnfilter)} :
        /\ warnfilter' = res.filter
        /\ scored' = [Subject EXCEPT !.op = "model_importance_score",
                        !.importance_attr = importance_attr,
                        !.raised = res.raised, !.value = res.value]
  /\ UNCHANGED <<config, status, gens, pyrandom, last, calls, otherDraws>>

\* cross_validation_scores(cv, X, y, true_importances=true_importances,
\*                         score_function_names=names)
CallCrossValidationScores ==
  /\ \E res \in {CrossValidationScores(
                   [fit_ok |-> scored.fit_ok, best_estimator_ |-> scored.model],
                   scored.true_importances, "feature_importances_", scored.names,
                   warnfilter)} :
        /\ warnfilter' = res.filter
        /\ scored' = [Subject EXCEPT !.op = "cross_validation_scores",
                        !.raised = res.raised, !.scores = res.scores]
  /\ UNCHANGED <<config, status, gens, pyrandom, last, calls, otherDraws>>

\* importance_score_estimator(estimator, X, y, true_importances, importance_attr)
CallImportanceScoreEstimator(importance_attr) ==
  /\ \E res \in {ImportanceScoreEstimator(scored.model, scored.fit_ok,
                                          scored.true_importances, importance_attr)} :
        /\ warnfilter' = res.filter
        /\ scored' = [Subject EXCEPT !.op = "importance_score_estimator",
                        !.importance_attr = importance_attr,
                        !.raised = res.raised, !.value = res.value]
  /\ UNCHANGED <<config, status, gens, pyrandom, last, calls, otherDraws>>

\* other code restores the warnings filter (warnings.resetwarnings())
ResetWarnings ==
  /\ warnfilter = "error"
  /\ warnfilter' = "default"
  /\ UNCHANGED <<config, status, gens, pyrandom, last, calls, otherDraws, scored>>

NextScore ==
  \/ CallImportanceScore
  \/ \E a \in ImportanceAttrs : CallModelImportanceScore(a)
  \/ CallCrossValidationScores
  \/ \E a \in ImportanceAttrs : CallImportanceScoreEstimator(a)
  \/ ResetWarnings

SpecScore == InitScore /\ [][NextScore]_vars

(***************************************************************************)
(* Properties of the constructor (checked under SpecNew).                  *)
(***************************************************************************)
Constructed(k) == status[k] = "ok"

\* the last n column indices
LastColumns(num_cols, n) == (num_cols - n) .. (num_cols - 1)

\* C1: when no interactions are supplied, the interaction columns (the keys
\* of interactions, equal to interaction_terms) of a constructed generator
\* are exactly the last num_interaction_terms column indices; none when
\* num_interaction_terms = 0.
C1_InteractionColumnsAreLast ==
  \A k \in Instances :
    Constructed(k) /\ config.interactions = <<>> =>
      /\ KeySet(gens[k].interactions)
           = LastColumns(config.num_cols, config.num_interaction_terms)
      /\ gens[k].interaction_terms = DictKeys(gens[k].interactions)

\* C2 as stated: every stored interaction, generated or user-supplied,
\* mimics a member of important_variables.
C2_EveryMimickedIsImportant ==
  \A k \in Instances :
    Constructed(k) =>
      \A t \in KeySet(gens[k].interactions) :
        DictGet(gens[k].interactions, t)[1] \in SeqSet(gens[k].important_variables)

\* C2 (amended): every stored interaction that the constructor generated
\* (its key is not a key of the user-supplied interactions) mimics a member
\* of important_variables as it stands at the end of construction.
C2_GeneratedMimickedIsImportant ==
  \A k \in Instances :
    Constructed(k) =>
      \A t \in KeySet(gens[k].interactions) \ KeySet(config.interactions) :
        DictGet(gens[k].interactions, t)[1] \in SeqSet(gens[k].important_variables)

\* a constructed generator holding a generated interaction next to a
\* user-supplied one that mimics a column that is not important
C2_Witness ==
  \E k \in Instances :
    /\ Constructed(k)
    /\ KeySet(gens[k].interactions) \ KeySet(config.interactions) # {}
    /\ \E t \in KeySet(config.interactions) :
         DictGet(gens[k].interactions, t)[1] \notin SeqSet(gens[k].important_variables)

\* C3: important_variables of a constructed generator is exactly the set of
\* columns whose final effect is nonzero at 0 or at 1, with or without
\* user-supplied effects; every other column's effect is zero at 0 and 1.
C3_ImportantIffNonzero ==
  \A k \in Instances :
    Constructed(k) =>
      \A v \in Range(config.num_cols) :
        LET f0 == Apply(gens[k].effects[v], 0)
            f1 == Apply(gens[k].effects[v], 1)
        IN /\ v \in SeqSet(gens[k].important_variables) <=> (f0 # 0 \/ f1 # 0)
           /\ v \notin SeqSet(gens[k].important_variables) => (f0 = 0 /\ f1 = 0)

\* a constructed generator where a user-supplied effect that is nonzero only
\* at 0 made a column important, or where a column among the first
\* num_important ended up not important
C3_Witness ==
  \E k \in Instances :
    /\ Constructed(k)
    /\ \E v \in DOMAIN config.effects :
         /\ v \in SeqSet(gens[k].important_variables)
         /\ Apply(gens[k].effects[v], 1) = 0
         /\ v >= config.num_important

\* a constructed generator where a column among the first num_important has
\* a generated effect that is zero at 0 and 1 and is not important
C3_WitnessDropped ==
  \E k \in Instances :
    /\ Constructed(k)
    /\ \E v \in Range(Min(config.num_important, config.num_cols)) :
         /\ gens[k].effects[v].kind = "gen"
         /\ v \notin SeqSet(gens[k].important_variables)

\* C4: importances has one entry per column; a non-important column has 0,
\* an important column has 1 under "constant" and max(|f(0)|, |f(1)|) under
\* "scaled"; with any other ranking (including "sobol") the constructor
\* fails.
C4_Importances ==
  \A k \in Instances :
    /\ Constructed(k) =>
         /\ DOMAIN gens[k].importances = Range(config.num_cols)
         /\ config.importance_ranking \in {"constant", "scaled"}
         /\ \A v \in Range(config.num_cols) :
              gens[k].importances[v] =
                IF v \notin SeqSet(gens[k].important_variables) THEN 0
                ELSE IF config.importance_ranking = "constant" THEN Unit
                ELSE Max(Abs(Apply(gens[k].effects[v], 0)),
                         Abs(Apply(gens[k].effects[v], 1)))
    /\ status[k] # "none" /\ config.importance_ranking \notin {"constant", "scaled"}
         => status[k] = "error"

\* a constructed generator under "scaled" with an important column whose
\* effect is larger in magnitude, and negative, at 0
C4_Witness ==
  \E k \in Instances :
    /\ Constructed(k)
    /\ config.importance_ranking = "scaled"
    /\ \E v \in SeqSet(gens[k].important_variables) :
         /\ Apply(gens[k].effects[v], 0) < 0
         /\ gens[k].importances[v] = 0 - Apply(gens[k].effects[v], 0)
         /\ gens[k].importances[v] > Abs(Apply(gens[k].effects[v], 1))

\* a construction that failed because the ranking was "sobol"
C4_WitnessSobol ==
  \E k \in Instances : status[k] = "error" /\ config.importance_ranking = "sobol"

\* C9: two generators constructed from the same arguments and with the same
\* rng_seed have the same effects (equal values at 0 and 1 in every column),
\* the same interactions and the same importances, whatever was drawn from
\* the module-level stream in between.
C9_SameSeedSameGenerator ==
  Constructed(1) /\ Constructed(2) /\ gens[1].rng_seed = gens[2].rng_seed =>
    /\ \A v \in Range(config.num_cols) : \A x \in {0, 1} :
         Apply(gens[1].effects[v], x) = Apply(gens[2].effects[v], x)
    /\ gens[1].interactions = gens[2].interactions
    /\ gens[1].importances = gens[2].importances

(***************************************************************************)
(* Properties of generate_data (checked under Spec).                       *)
(***************************************************************************)
Called == last.inst # 0
Returned == Called /\ last.ok
\* the last call got as far as calling generate_noise
ReachedNoise == last.stage \in {"noise", "return"}
\* the interaction pass of the last call ran to its end
PassDone == last.stage \in {"predict", "noise", "return"}
\* the rows of the table the last call returned
Rows == DOMAIN last.table.data[IF "target" \in last.call.given THEN last.call.target
                               ELSE last.before.target]
\* the value generate_data uses for an argument in the last call
Effective(name) == IF name \in last.call.given THEN last.call[name] ELSE last.before[name]
Supplied(name) == name \in last.call.given
NumLabels == Len(last.table.columns)
HasRows(n) == \A label \in SeqSet(last.table.columns) : Len(last.table.data[label]) = n
TargetOf(r) == last.table.data[Effective("target")][r]
\* the columns predict read in the last call, in the order of the frame
Read == Without(last.labels, last.before.target)

\* C5: every call that returns, returns num_rows rows and num_cols + 1
\* columns, whatever the target column name.
C5_ShapeAnyTarget ==
  Returned =>
    /\ HasRows(Effective("num_rows"))
    /\ NumLabels = last.before.num_cols + 1

C7_OverrideEffectsUsed ==
  Returned /\ Supplied("effects") =>
    \A r \in Rows :
      TargetOf(r) = Add(Add(SumEffects(last.call.effects, last.X, Read, r), last.noise[r]),
                        FromInt(Effective("intercept")))

\* C8: with noise_scale = 0, for every noise distribution and every row, the
\* target equals predict(features) + intercept: the sum of the stored
\* effects applied to the row's final feature values (the columns predict
\* reads, i.e. those not labelled like the stored target) plus the intercept.
C8_NoNoiseTargetIsSignal ==
  Returned /\ Effective("noise_scale") = 0 =>
    \A r \in Rows :
      TargetOf(r) = Add(SumEffects(last.before.effects, last.X, Read, r),
                        FromInt(Effective("intercept")))

\* a call with noise_scale = 0 and an unsupported distribution that returned
\* rows with a nonzero signal and a nonzero intercept
C8_Witness ==
  /\ Returned /\ Effective("noise_scale") = 0
  /\ Effective("noise_distribution") = "invalid"
  /\ Effective("intercept") # 0
  /\ \E r \in Rows :
       ~IsZero(last.important_sum[r]) /\ TargetOf(r) # FromInt(Effective("intercept"))

\* the stored configuration and derived state of a generator: everything but
\* the state of its random stream
Stored(gen) == [gen EXCEPT !.rng = NpSeeded(SeedLimbs(0))]

\* C10: no generate_data call changes the stored configuration or the
\* derived state of a generator (frequencies, effects, interactions,
\* interaction_terms, important_variables, importances, num_rows, num_cols,
\* intercept, noise settings, rng_seed); only the random streams move.
C10_GenerateDataKeepsConfiguration ==
  [][\A k \in Instances : Constructed(k) => Stored(gens'[k]) = Stored(gens[k])]_vars

\* a second call, with a num_rows override, on a generator whose random
\* stream has moved
C10_Witness ==
  /\ calls >= 2
  /\ Returned
  /\ Supplied("num_rows") /\ last.call.num_rows # last.before.num_rows
  /\ gens[last.inst].rng # last.before.rng

\* the interaction pass of the last call: its keys in order, and its cells
\* numbered column by column, row by row, from 1
PassKeys == DictKeys(Effective("interactions"))
PassRows == IF DOMAIN last.sampled = {} THEN 0 ELSE Effective("num_rows")
PassCells == 1 .. (Len(PassKeys) * PassRows)
CellKey(n) == ((n - 1) \div PassRows) + 1
CellCol(n) == PassKeys[CellKey(n)]
CellRow(n) == ((n - 1) % PassRows) + 1
CellMimicked(n) == DictGet(Effective("interactions"), CellCol(n))[1]
CellCorrelation(n) == DictGet(Effective("interactions"), CellCol(n))[2]
\* the value of the mimicked column the cell sees: already overwritten when
\* the mimicked column is an earlier key, as sampled otherwise
CellMimickedValue(n) ==
  IF \E k \in 1 .. (CellKey(n) - 1) : PassKeys[k] = CellMimicked(n)
  THEN last.X[CellMimicked(n)][CellRow(n)]
  ELSE last.sampled[CellMimicked(n)][CellRow(n)]
CellSampledValue(n) == last.sampled[CellCol(n)][CellRow(n)]
\* the uniform(0, 1) value taken at position p of the auxiliary stream after
\* reseeding to rng_seed (a draw takes two positions)
PassDraw(p) == PyRandom([seed |-> last.before.rng_seed, pos |-> p])
\* the value the rule gives the cell when u1 decides the complement and u2 the copy
CellOutcome(n, u1, u2) ==
  IF Below(u1, CellCorrelation(n).bound) /\ CellCorrelation(n).sign < 0
  THEN 1 - CellMimickedValue(n)
  ELSE IF Below(u2, CellCorrelation(n).bound) /\ CellCorrelation(n).sign > 0
       THEN CellMimickedValue(n)
       ELSE CellSampledValue(n)
\* the first draw of a cell complements it: no second draw is taken
FirstDrawDecides(n, p) ==
  Below(PassDraw(p), CellCorrelation(n).bound) /\ CellCorrelation(n).sign < 0
\* the position of the first draw of the cell after cell n, whose first draw is at p
NextFirstDraw(n, p) == p + (IF FirstDrawDecides(n, p) THEN 2 ELSE 4)
\* the positions of the first draws of cells n, n + 1, ..., the first at p; the
\* last element is the position of the stream after the last cell
RECURSIVE FirstDrawsFrom(_, _)
FirstDrawsFrom(n, p) ==
  IF n \notin PassCells THEN <<p>>
  ELSE <<p>> \o (CHOOSE rest \in {FirstDrawsFrom(n + 1, NextFirstDraw(n, p))} : TRUE)
FirstDraws == FirstDrawsFrom(1, 0)

C12_WitnessComplement ==
  /\ Called /\ PassDone
  /\ \E first \in {FirstDraws} : \E n \in PassCells :
       /\ FirstDrawDecides(n, first[n])
       /\ last.X[CellCol(n)][CellRow(n)] = 1 - CellMimickedValue(n)

(***************************************************************************)
(* Claims about the scoring harness (SpecScore).                           *)
(***************************************************************************)
Scored(op) == scored.op = op
\* the rank correlation of the ground truth with pred cannot be computed
CorrelationFails(pred) ==
  \/ Len(pred) # Len(scored.true_importances)
  \/ IsConstant(pred)
  \/ IsConstant(scored.true_importances)
AttrMissing == scored.model.attr_name # scored.importance_attr
\* computing the score called name fails on the fitted model of the last call
ScoreFails(name) ==
  \/ name = "model_importance" /\ AttrMissing
  \/ name \in scored.model.raising
  \/ CorrelationFails(scored.model.importances)

\* C11: any failure while computing an importance score for a fitted model
\* (the rank correlation failing on degenerate input, the model lacking the
\* named importance attribute, an importance algorithm raising) is recovered
\* locally: no exception leaves importance_score, model_importance_score or
\* the scoring loop of cross_validation_scores, and the score of that name is 0.
C11_ScoreFailuresRecovered ==
  /\ Scored("importance_score") =>
       /\ ~scored.raised
       /\ CorrelationFails(scored.pred_importances) => scored.value = ZeroScore
  /\ Scored("model_importance_score") =>
       /\ ~scored.raised
       /\ ScoreFails("model_importance") => scored.value = ZeroScore
  /\ Scored("cross_validation_scores") /\ scored.fit_ok =>
       /\ ~scored.raised
       /\ \A k \in DOMAIN scored.names :
            /\ scored.names[k] \in DOMAIN scored.scores
            /\ ScoreFails(scored.names[k]) => scored.scores[scored.names[k]] = ZeroScore
====
